---------------------------- MODULE Spec2Model ----------------------------
(***************************************************************************)
(* AURORA power calculator: the calculation engine and the component state *)
(* of src/unnamed/part_000 (current version, persistent settings, cluster  *)
(* size CV) and src/src/App.js (earlier version, threshold search).        *)
(*                                                                         *)
(* Numbers.  JavaScript numbers are modelled by exact rationals extended   *)
(* with NaN, +Infinity and -Infinity; IEEE rounding error is not modelled. *)
(* A rational is [n, d] in lowest terms with d > 0; d = 0 encodes the      *)
(* non-finite values: [0,0] NaN, [1,0] +Infinity, [-1,0] -Infinity.        *)
(* Negative zero is not modelled.                                          *)
(* Values too large for one rational are products of rationals (Prod), and *)
(* values under a square root are [a, sg, r] = a + sg * sqrt(r).           *)
(***************************************************************************)
EXTENDS Integers, Sequences, FiniteSets, TLC

-----------------------------------------------------------------------------
(* Exact rationals with the non-finite values of JavaScript numbers *)

Abs(x) == IF x < 0 THEN -x ELSE x

Sign(x) == IF x < 0 THEN -1 ELSE IF x = 0 THEN 0 ELSE 1

RECURSIVE Gcd(_, _)
Gcd(a, b) == IF b = 0 THEN a ELSE Gcd(b, a % b)

NaN == [n |-> 0, d |-> 0]

Infinity == [n |-> 1, d |-> 0]

NegInfinity == [n |-> -1, d |-> 0]

\* n/d in lowest terms; a zero denominator yields NaN or a signed infinity
Q(n, d) ==
  IF d = 0 THEN [n |-> Sign(n), d |-> 0]
  ELSE LET g == Gcd(Abs(n), Abs(d))
       IN  [n |-> Sign(d) * (n \div g), d |-> Abs(d) \div g]

IsNaN(x) == x.d = 0 /\ x.n = 0

IsFinite(x) == x.d # 0

RNeg(x) == [n |-> -x.n, d |-> x.d]

\* x + y
RAdd(x, y) ==
  IF x.d = 0 /\ y.d = 0
  THEN IF x.n = y.n THEN x ELSE NaN
  ELSE IF x.d = 0 THEN x
  ELSE IF y.d = 0 THEN y
  ELSE LET g == Gcd(x.d, y.d)
       IN  Q(x.n * (y.d \div g) + y.n * (x.d \div g), (x.d \div g) * y.d)

\* x - y
RSub(x, y) == RAdd(x, RNeg(y))

\* x * y  (Infinity * 0 is NaN)
RMul(x, y) ==
  IF x.d = 0 \/ y.d = 0
  THEN [n |-> Sign(x.n) * Sign(y.n), d |-> 0]
  ELSE LET g1 == Gcd(Abs(x.n), y.d)
           g2 == Gcd(Abs(y.n), x.d)
       IN  IF x.n = 0 \/ y.n = 0 THEN [n |-> 0, d |-> 1]
           ELSE [n |-> (x.n \div g1) * (y.n \div g2),
                 d |-> (x.d \div g2) * (y.d \div g1)]

\* 1 / y  (1/0 is +Infinity, 1/Infinity is 0)
RInv(y) ==
  IF y.d = 0 THEN (IF y.n = 0 THEN NaN ELSE [n |-> 0, d |-> 1])
  ELSE IF y.n = 0 THEN Infinity
  ELSE [n |-> Sign(y.n) * y.d, d |-> Abs(y.n)]

\* x / y  (0/0 and Infinity/Infinity are NaN)
RDiv(x, y) ==
  IF y.d # 0 /\ y.n = 0
  THEN (IF x.d = 0 THEN x ELSE [n |-> Sign(x.n), d |-> 0])
  ELSE RMul(x, RInv(y))

\* x < y, false when either is NaN
RLt(x, y) ==
  IF IsNaN(x) \/ IsNaN(y) THEN FALSE
  ELSE IF x.d = 0 /\ y.d = 0 THEN x.n < y.n
  ELSE IF x.d = 0 THEN x.n < 0
  ELSE IF y.d = 0 THEN y.n > 0
  ELSE x.n * y.d < y.n * x.d

\* x <= y, false when either is NaN
RLe(x, y) == ~IsNaN(x) /\ ~IsNaN(y) /\ ~RLt(y, x)

\* Math.round: nearest integer, halves towards +Infinity; non-finite unchanged
Round(x) ==
  IF x.d = 0 THEN x ELSE [n |-> (2 * x.n + x.d) \div (2 * x.d), d |-> 1]

Int2R(k) == [n |-> k, d |-> 1]

-----------------------------------------------------------------------------
(* Natural numbers of any size: little-endian limbs in base 10000 *)

RECURSIVE BigOfNat(_)
BigOfNat(k) == IF k = 0 THEN << >> ELSE <<k % 10000>> \o BigOfNat(k \div 10000)

RECURSIVE BigMulLimb(_, _, _)
BigMulLimb(a, k, carry) ==
  IF a = << >> THEN BigOfNat(carry)
  ELSE LET t == Head(a) * k + carry
       IN  <<t % 10000>> \o BigMulLimb(Tail(a), k, t \div 10000)

RECURSIVE BigAdd(_, _, _)
BigAdd(a, b, carry) ==
  IF a = << >> /\ b = << >> THEN BigOfNat(carry)
  ELSE LET x == IF a = << >> THEN 0 ELSE Head(a)
           y == IF b = << >> THEN 0 ELSE Head(b)
           t == x + y + carry
       IN  <<t % 10000>>
             \o BigAdd(IF a = << >> THEN a ELSE Tail(a),
                       IF b = << >> THEN b ELSE Tail(b), t \div 10000)

RECURSIVE BigMul(_, _)
BigMul(a, b) ==
  IF a = << >> \/ b = << >> THEN << >>
  ELSE LET rest == BigMul(a, Tail(b))
       IN  BigAdd(IF Head(b) = 0 THEN << >> ELSE BigMulLimb(a, Head(b), 0),
                  IF rest = << >> THEN rest ELSE <<0>> \o rest, 0)

RECURSIVE BigLtFrom(_, _, _)
BigLtFrom(a, b, i) ==
  IF i = 0 THEN FALSE
  ELSE IF a[i] # b[i] THEN a[i] < b[i]
  ELSE BigLtFrom(a, b, i - 1)

BigLt(a, b) ==
  IF Len(a) # Len(b) THEN Len(a) < Len(b) ELSE BigLtFrom(a, b, Len(a))

-----------------------------------------------------------------------------
(* Products of rationals: a value too large for one rational is kept as the *)
(* sequence of its factors and multiplied out only to be compared           *)

\* "nan", "pinf", "ninf", "zero", "pos" or "neg"
PClass(p) ==
  LET idx  == DOMAIN p
      inf  == \E i \in idx : p[i].d = 0
      zero == \E i \in idx : p[i].d # 0 /\ p[i].n = 0
      odd  == Cardinality({i \in idx : p[i].n < 0}) % 2 = 1
  IN  IF (\E i \in idx : IsNaN(p[i])) \/ (inf /\ zero) THEN "nan"
      ELSE IF inf THEN (IF odd THEN "ninf" ELSE "pinf")
      ELSE IF zero THEN "zero"
      ELSE IF odd THEN "neg" ELSE "pos"

\* a * k for a natural number k: one pass when k is a single limb
BigMulNat(a, k) ==
  IF k = 1 THEN a
  ELSE IF k < 10000 THEN BigMulLimb(a, k, 0)
  ELSE BigMul(a, BigOfNat(k))

\* the product of a sequence of natural numbers
RECURSIVE BigProd(_)
BigProd(ks) ==
  IF ks = << >> THEN <<1>> ELSE BigMulNat(BigProd(Tail(ks)), Head(ks))

\* the numerators (in absolute value) and the denominators of the factors
PNum(p) == [i \in DOMAIN p |-> Abs(p[i].n)]

PDen(p) == [i \in DOMAIN p |-> p[i].d]

\* |p| < |q| for finite non-zero products, by cross-multiplication
PMagLt(p, q) ==
  BigLt(BigProd(PNum(p) \o PDen(q)), BigProd(PNum(q) \o PDen(p)))

\* rank of a class on the number line (NaN has none)
ClassRank(c) ==
  CASE c = "ninf" -> 0 [] c = "neg" -> 1 [] c = "zero" -> 2
    [] c = "pos" -> 3 [] c = "pinf" -> 4

\* p < q, false when either is NaN
PLt(p, q) ==
  LET cp == PClass(p)
      cq == PClass(q)
  IN  IF cp = "nan" \/ cq = "nan" THEN FALSE
      ELSE IF cp # cq THEN ClassRank(cp) < ClassRank(cq)
      ELSE IF cp = "pos" THEN PMagLt(p, q)
      ELSE IF cp = "neg" THEN PMagLt(q, p)
      ELSE FALSE

\* p * x and p / x
PMul(p, x) == Append(p, x)

PDiv(p, x) ==
  IF x.d # 0 /\ x.n = 0 THEN Append(p, Infinity) ELSE Append(p, RInv(x))

\* the factors of 1 / p
PInv(p) == [i \in DOMAIN p |-> RInv(p[i])]

-----------------------------------------------------------------------------
(* Values with a square root: [a, sg, r] is a + sg * sqrt(r), r a positive *)
(* finite product; sg = 0 for a plain (possibly non-finite) rational       *)

VRat(x) == [a |-> x, sg |-> 0, r |-> << >>]

\* Math.sqrt of a product: NaN below zero
Sqrt(p) ==
  LET c == PClass(p)
  IN  IF c \in {"nan", "neg", "ninf"} THEN VRat(NaN)
      ELSE IF c = "pinf" THEN VRat(Infinity)
      ELSE IF c = "zero" THEN VRat(Int2R(0))
      ELSE [a |-> Int2R(0), sg |-> 1, r |-> p]

\* Math.sqrt of a rational
SqrtR(x) == Sqrt(<<x>>)

\* sg * sqrt(r) < c for a finite rational c
RootLtR(sg, r, c) ==
  IF sg > 0 THEN c.n > 0 /\ PLt(r, <<c, c>>)
  ELSE c.n > 0 \/ PLt(<<c, c>>, r)

\* sign of a value: -1, 0 or 1 (0 for NaN)
VSign(v) ==
  IF v.sg = 0 THEN Sign(v.a.n)
  ELSE IF v.a.n = 0 THEN v.sg
  ELSE IF RootLtR(v.sg, v.r, RNeg(v.a)) THEN -1
  ELSE IF RootLtR(-v.sg, v.r, v.a) THEN 1
  ELSE 0

\* v * x for a rational x
VMulR(v, x) ==
  IF v.sg = 0 THEN VRat(RMul(v.a, x))
  ELSE IF IsNaN(x) THEN VRat(NaN)
  ELSE IF x.d = 0 THEN VRat([n |-> x.n * VSign(v), d |-> 0])
  ELSE IF x.n = 0 THEN VRat(Int2R(0))
  ELSE [a |-> RMul(v.a, x), sg |-> v.sg * Sign(x.n), r |-> v.r \o <<x, x>>]

\* v / x for a rational x
VDivR(v, x) ==
  IF v.sg = 0 THEN VRat(RDiv(v.a, x))
  ELSE IF x.d # 0 /\ x.n = 0 THEN VRat([n |-> VSign(v), d |-> 0])
  ELSE VMulR(v, RInv(x))

\* v * w where each is a rational or a pure root
VMulV(v, w) ==
  IF w.sg = 0 THEN VMulR(v, w.a)
  ELSE IF v.sg = 0 THEN VMulR(w, v.a)
  ELSE [a |-> Int2R(0), sg |-> v.sg * w.sg, r |-> v.r \o w.r]

\* v / w where each is a rational or a pure root
VDivV(v, w) ==
  IF w.sg = 0 THEN VDivR(v, w.a)
  ELSE IF v.sg = 0 THEN
    (IF v.a.d = 0 THEN VRat([n |-> v.a.n * w.sg, d |-> 0])
     ELSE IF v.a.n = 0 THEN VRat(Int2R(0))
     ELSE [a |-> Int2R(0), sg |-> Sign(v.a.n) * w.sg,
           r |-> <<v.a, v.a>> \o PInv(w.r)])
  ELSE [a |-> Int2R(0), sg |-> v.sg * w.sg, r |-> v.r \o PInv(w.r)]

\* -v
VNeg(v) == [a |-> RNeg(v.a), sg |-> -v.sg, r |-> v.r]

\* v + x for a rational x
VAddR(v, x) ==
  LET s == RAdd(v.a, x) IN IF s.d = 0 THEN VRat(s) ELSE [v EXCEPT !.a = s]

\* v < w: one side rational, or both pure roots; false when either is NaN
VLt(v, w) ==
  IF v.sg = 0 /\ w.sg = 0 THEN RLt(v.a, w.a)
  ELSE IF w.sg = 0 THEN
    (IF w.a.d = 0 THEN w.a.n > 0 ELSE RootLtR(v.sg, v.r, RSub(w.a, v.a)))
  ELSE IF v.sg = 0 THEN
    (IF v.a.d = 0 THEN v.a.n < 0 ELSE RootLtR(-w.sg, w.r, RSub(w.a, v.a)))
  ELSE IF v.sg # w.sg THEN v.sg < w.sg
  ELSE IF v.sg > 0 THEN PLt(v.r, w.r) ELSE PLt(w.r, v.r)

VIsNaN(v) == v.sg = 0 /\ IsNaN(v.a)

VIsFinite(v) == v.sg # 0 \/ v.a.d # 0

\* v <= w and v > w as JavaScript compares: false when either is NaN
VLe(v, w) == ~VIsNaN(v) /\ ~VIsNaN(w) /\ ~VLt(w, v)

VGt(v, w) == VLt(w, v)

-----------------------------------------------------------------------------
(* Settings and the memoized helpers of src/unnamed/part_000 *)

\* k hundredths, k thousandths
Pct(k) == Q(k, 100)

Mil(k) == Q(k, 1000)

defaults ==
  [power |-> Pct(80), alpha |-> Mil(25), iccHamd |-> Pct(4),
   iccRetention |-> Pct(5), r2Hamd |-> Pct(35), r2Retention |-> Pct(5),
   patientsPerCluster |-> Int2R(10), nClinicians |-> Int2R(100),
   clusterSizeCV |-> Int2R(0), controlAttrition |-> Pct(30),
   treatmentRatio |-> Int2R(3), measurementModel |-> "sum",
   sumScoreReliability |-> Pct(86), raschReliability |-> Pct(91),
   raterVarianceProp |-> Pct(7), targetIcc |-> Pct(75),
   expectedIcc |-> Pct(80), iccClusterCorr |-> Pct(3),
   nFollowups |-> Int2R(4), survivalEfficiency |-> Int2R(4)]

SettingKeys == DOMAIN defaults

\* a table whose fallback is the 0.05 entry
zAlpha_Fallback196(alpha) ==
  IF alpha = Pct(5) THEN Pct(196)
  ELSE IF alpha = Mil(25) THEN Pct(224)
  ELSE IF alpha = Pct(1) THEN Pct(258)
  ELSE Pct(196)

\* z[alpha] || 2.24
zAlphaOf(alpha) ==
  IF alpha = Pct(5) THEN Pct(196)
  ELSE IF alpha = Mil(25) THEN Pct(224)
  ELSE IF alpha = Pct(1) THEN Pct(258)
  ELSE Pct(224)

\* z[power] || 0.842
zBetaOf(power) ==
  IF power = Pct(70) THEN Mil(524)
  ELSE IF power = Pct(75) THEN Mil(674)
  ELSE IF power = Pct(80) THEN Mil(842)
  ELSE IF power = Pct(85) THEN Mil(1036)
  ELSE IF power = Pct(90) THEN Mil(1282)
  ELSE Mil(842)

\* the reliability adjustment for the model named rasch alone
useRasch_RaschOnly(measurementModel) == measurementModel = "rasch"

useRaschOf(measurementModel) ==
  measurementModel = "rasch" \/ measurementModel = "mfrm"

useMFRMOf(measurementModel) == measurementModel = "mfrm"

\* a multiplier that leaves the reliabilities out: the rater adjustment alone
measurementVarianceMultiplier_RaterOnly(useRasch, useMFRM, sumScoreReliability, raschReliability, raterVarianceProp) ==
  IF useMFRM THEN RSub(Int2R(1), raterVarianceProp) ELSE Int2R(1)

\* a multiplier that applies the reliability adjustment under every model
measurementVarianceMultiplier_Unconditional(useRasch, useMFRM, sumScoreReliability, raschReliability, raterVarianceProp) ==
  LET sumScoreError  == RSub(Int2R(1), sumScoreReliability)
      raschError     == RSub(Int2R(1), raschReliability)
      errorReduction == RDiv(RSub(sumScoreError, raschError), sumScoreError)
      m1 == RMul(Int2R(1), RSub(Int2R(1), RMul(errorReduction, sumScoreError)))
  IN  IF useMFRM THEN RMul(m1, RSub(Int2R(1), raterVarianceProp)) ELSE m1

\* the body of the measurementVarianceMultiplier memo
measurementVarianceMultiplierOf(useRasch, useMFRM, sumScoreReliability, raschReliability, raterVarianceProp) ==
  LET sumScoreError  == RSub(Int2R(1), sumScoreReliability)
      raschError     == RSub(Int2R(1), raschReliability)
      errorReduction == RDiv(RSub(sumScoreError, raschError), sumScoreError)
      m1 == IF useRasch
            THEN RMul(Int2R(1), RSub(Int2R(1), RMul(errorReduction, sumScoreError)))
            ELSE Int2R(1)
      m2 == IF useMFRM THEN RMul(m1, RSub(Int2R(1), raterVarianceProp)) ELSE m1
  IN  m2

\* the variables of a render that the three calculators read: thirteen settings
\* and the three memoized values
Closure(s, zAlpha, zBeta, mvm) ==
  [patientsPerCluster |-> s.patientsPerCluster,
   treatmentRatio |-> s.treatmentRatio,
   controlAttrition |-> s.controlAttrition,
   r2Hamd |-> s.r2Hamd,
   iccHamd |-> s.iccHamd,
   clusterSizeCV |-> s.clusterSizeCV,
   iccRetention |-> s.iccRetention,
   r2Retention |-> s.r2Retention,
   survivalEfficiency |-> s.survivalEfficiency,
   nFollowups |-> s.nFollowups,
   iccClusterCorr |-> s.iccClusterCorr,
   expectedIcc |-> s.expectedIcc,
   targetIcc |-> s.targetIcc,
   zAlpha |-> zAlpha,
   zBeta |-> zBeta,
   measurementVarianceMultiplier |-> mvm]

\* the closure of a render whose memos are all current
FreshClosure(s) ==
  Closure(s, zAlphaOf(s.alpha), zBetaOf(s.power),
          measurementVarianceMultiplierOf(useRaschOf(s.measurementModel),
            useMFRMOf(s.measurementModel), s.sumScoreReliability,
            s.raschReliability, s.raterVarianceProp))

-----------------------------------------------------------------------------
(* The three calculators of src/unnamed/part_000 *)

\* the number of whole clusters totalN fills
nClusters_Floor(c, totalN) ==
  LET q == RDiv(totalN, c.patientsPerCluster)
  IN  IF q.d = 0 THEN q ELSE Int2R(q.n \div q.d)

\* nClusters and nTreatmentClusters, as each calculator computes them
nClustersOf(c, totalN) == Round(RDiv(totalN, c.patientsPerCluster))

\* treatment clusters allotted in whole blocks of treatmentRatio
nTreatmentClusters_Blocks(c, totalN) ==
  RMul(Round(RDiv(nClustersOf(c, totalN), RAdd(c.treatmentRatio, Int2R(1)))),
       c.treatmentRatio)

nTreatmentClustersOf(c, totalN) ==
  LET treatmentProportion == RDiv(c.treatmentRatio, RAdd(c.treatmentRatio, Int2R(1)))
  IN  Round(RMul(nClustersOf(c, totalN), treatmentProportion))

\* const clusterSize = patientsPerCluster * (1 - controlAttrition) and
\* const designEffect = ... of calcHamdMDE
calcHamdMDE_designEffect(c) ==
  LET clusterSize == RMul(c.patientsPerCluster, RSub(Int2R(1), c.controlAttrition))
  IN  RMul(RAdd(Int2R(1), RMul(RSub(clusterSize, Int2R(1)), c.iccHamd)),
           RAdd(Int2R(1), RMul(c.clusterSizeCV, c.clusterSizeCV)))

\* a design effect that takes the coefficient of variation unsquared
calcRetentionMDE_designEffect_LinearCV(c) ==
  RMul(RAdd(Int2R(1), RMul(RSub(c.patientsPerCluster, Int2R(1)), c.iccRetention)),
       RAdd(Int2R(1), c.clusterSizeCV))

\* const designEffect = ... of calcRetentionMDE
calcRetentionMDE_designEffect(c) ==
  RMul(RAdd(Int2R(1), RMul(RSub(c.patientsPerCluster, Int2R(1)), c.iccRetention)),
       RAdd(Int2R(1), RMul(c.clusterSizeCV, c.clusterSizeCV)))

calcHamdMDE(c, totalN) ==
  LET nClusters == nClustersOf(c, totalN)
      nTreatmentClusters == nTreatmentClustersOf(c, totalN)
      nControlClusters == RSub(nClusters, nTreatmentClusters)
      nTreatmentPatients ==
        RMul(RMul(nTreatmentClusters, c.patientsPerCluster),
             RSub(Int2R(1), c.controlAttrition))
      nControlPatients ==
        RMul(RMul(nControlClusters, c.patientsPerCluster),
             RSub(Int2R(1), c.controlAttrition))
      nHarmonic ==
        RDiv(RMul(RMul(Int2R(2), nTreatmentPatients), nControlPatients),
             RAdd(nTreatmentPatients, nControlPatients))
      sigma2 == Int2R(49)
      sigma2Adj == RMul(sigma2, RSub(Int2R(1), c.r2Hamd))
      designEffect == calcHamdMDE_designEffect(c)
      ipcwVIF == Pct(120)
      repeatedMeasuresGain == Pct(143)
      baseVariance == PDiv(<<sigma2Adj, designEffect, ipcwVIF>>, repeatedMeasuresGain)
      netVariance == PMul(baseVariance, c.measurementVarianceMultiplier)
      zSum == RAdd(c.zAlpha, c.zBeta)
      baselineMDE == VMulR(Sqrt(PDiv(<<Int2R(2)>> \o baseVariance, nHarmonic)), zSum)
      mde == VMulR(Sqrt(PDiv(<<Int2R(2)>> \o netVariance, nHarmonic)), zSum)
  IN  [mde |-> mde,
       baselineMDE |-> baselineMDE,
       effectSize |-> VDivR(mde, Int2R(7)),
       nClusters |-> nClusters,
       nTreatmentClusters |-> nTreatmentClusters,
       nControlClusters |-> nControlClusters,
       nCompleters |-> Round(RAdd(nTreatmentPatients, nControlPatients)),
       varianceReduction |->
         RMul(RSub(Int2R(1), c.measurementVarianceMultiplier), Int2R(100))]

\* a retention calculator that takes the efficiency gain without the root
calcRetentionMDE_NoRoot(c, totalN) ==
  LET nClusters == nClustersOf(c, totalN)
      nTreatmentClusters == nTreatmentClustersOf(c, totalN)
      nTreatment == RMul(nTreatmentClusters, c.patientsPerCluster)
      nControl == RMul(RSub(nClusters, nTreatmentClusters), c.patientsPerCluster)
      designEffect ==
        RMul(RAdd(Int2R(1), RMul(RSub(c.patientsPerCluster, Int2R(1)), c.iccRetention)),
             RAdd(Int2R(1), RMul(c.clusterSizeCV, c.clusterSizeCV)))
      p0 == c.controlAttrition
      baseSE ==
        SqrtR(RMul(RMul(p0, RSub(Int2R(1), p0)),
                   RAdd(RDiv(Int2R(1), nTreatment), RDiv(Int2R(1), nControl))))
      adjustedSE ==
        VMulV(VMulV(baseSE, SqrtR(designEffect)), SqrtR(RSub(Int2R(1), c.r2Retention)))
      zSum == RAdd(c.zAlpha, c.zBeta)
      mde == VMulR(VDivR(adjustedSE, c.survivalEfficiency), zSum)
  IN  [mde |-> VMulR(mde, Int2R(100)),
       controlRate |-> RMul(p0, Int2R(100)),
       treatmentRate |-> VMulR(VAddR(VNeg(mde), p0), Int2R(100)),
       nClusters |-> nClusters,
       binaryMDE |-> VMulR(VMulR(adjustedSE, zSum), Int2R(100))]

\* a retention calculator whose efficiency gain raises the standard error
calcRetentionMDE_Inflated(c, totalN) ==
  LET nClusters == nClustersOf(c, totalN)
      nTreatmentClusters == nTreatmentClustersOf(c, totalN)
      nTreatment == RMul(nTreatmentClusters, c.patientsPerCluster)
      nControl == RMul(RSub(nClusters, nTreatmentClusters), c.patientsPerCluster)
      designEffect ==
        RMul(RAdd(Int2R(1), RMul(RSub(c.patientsPerCluster, Int2R(1)), c.iccRetention)),
             RAdd(Int2R(1), RMul(c.clusterSizeCV, c.clusterSizeCV)))
      p0 == c.controlAttrition
      baseSE ==
        SqrtR(RMul(RMul(p0, RSub(Int2R(1), p0)),
                   RAdd(RDiv(Int2R(1), nTreatment), RDiv(Int2R(1), nControl))))
      adjustedSE ==
        VMulV(VMulV(baseSE, SqrtR(designEffect)), SqrtR(RSub(Int2R(1), c.r2Retention)))
      zSum == RAdd(c.zAlpha, c.zBeta)
      mde == VMulR(VMulV(adjustedSE, SqrtR(c.survivalEfficiency)), zSum)
  IN  [mde |-> VMulR(mde, Int2R(100)),
       controlRate |-> RMul(p0, Int2R(100)),
       treatmentRate |-> VMulR(VAddR(VNeg(mde), p0), Int2R(100)),
       nClusters |-> nClusters,
       binaryMDE |-> VMulR(VMulR(adjustedSE, zSum), Int2R(100))]

\* a retention calculator whose arms are the completers, as in the other two
calcRetentionMDE_Completers(c, totalN) ==
  LET nClusters == nClustersOf(c, totalN)
      nTreatmentClusters == nTreatmentClustersOf(c, totalN)
      nControlClusters == RSub(nClusters, nTreatmentClusters)
      nTreatment ==
        RMul(RMul(nTreatmentClusters, c.patientsPerCluster), RSub(Int2R(1), c.controlAttrition))
      nControl ==
        RMul(RMul(nControlClusters, c.patientsPerCluster), RSub(Int2R(1), c.controlAttrition))
      designEffect ==
        RMul(RAdd(Int2R(1), RMul(RSub(c.patientsPerCluster, Int2R(1)), c.iccRetention)),
             RAdd(Int2R(1), RMul(c.clusterSizeCV, c.clusterSizeCV)))
      p0 == c.controlAttrition
      baseSE ==
        SqrtR(RMul(RMul(p0, RSub(Int2R(1), p0)),
                   RAdd(RDiv(Int2R(1), nTreatment), RDiv(Int2R(1), nControl))))
      clusteredSE == VMulV(baseSE, SqrtR(designEffect))
      adjustedSE == VMulV(clusteredSE, SqrtR(RSub(Int2R(1), c.r2Retention)))
      survivalSE == VDivV(adjustedSE, SqrtR(c.survivalEfficiency))
      zSum == RAdd(c.zAlpha, c.zBeta)
      mde == VMulR(survivalSE, zSum)
  IN  [mde |-> VMulR(mde, Int2R(100)),
       controlRate |-> RMul(p0, Int2R(100)),
       treatmentRate |-> VMulR(VAddR(VNeg(mde), p0), Int2R(100)),
       nClusters |-> nClusters,
       binaryMDE |-> VMulR(VMulR(adjustedSE, zSum), Int2R(100))]

calcRetentionMDE(c, totalN) ==
  LET nClusters == nClustersOf(c, totalN)
      nTreatmentClusters == nTreatmentClustersOf(c, totalN)
      nControlClusters == RSub(nClusters, nTreatmentClusters)
      nTreatment == RMul(nTreatmentClusters, c.patientsPerCluster)
      nControl == RMul(nControlClusters, c.patientsPerCluster)
      designEffect == calcRetentionMDE_designEffect(c)
      p0 == c.controlAttrition
      baseSE ==
        SqrtR(RMul(RMul(p0, RSub(Int2R(1), p0)),
                   RAdd(RDiv(Int2R(1), nTreatment), RDiv(Int2R(1), nControl))))
      clusteredSE == VMulV(baseSE, SqrtR(designEffect))
      adjustedSE == VMulV(clusteredSE, SqrtR(RSub(Int2R(1), c.r2Retention)))
      survivalSE == VDivV(adjustedSE, SqrtR(c.survivalEfficiency))
      zSum == RAdd(c.zAlpha, c.zBeta)
      mde == VMulR(survivalSE, zSum)
  IN  [mde |-> VMulR(mde, Int2R(100)),
       controlRate |-> RMul(p0, Int2R(100)),
       treatmentRate |-> VMulR(VAddR(VNeg(mde), p0), Int2R(100)),
       nClusters |-> nClusters,
       binaryMDE |-> VMulR(VMulR(adjustedSE, zSum), Int2R(100))]

\* a comparison that is also true when the bound is NaN
canRuleOutPoor_NotAtMost(lowerBound, targetIcc) == ~VLe(lowerBound, VRat(targetIcc))

\* const canRuleOutPoor = lowerBound > targetIcc
canRuleOutPoorOf(lowerBound, targetIcc) == VGt(lowerBound, VRat(targetIcc))

\* the constants calcIccValidation computes before it builds its result
calcIccValidationLocals(c, totalN) ==
  LET nClusters == nClustersOf(c, totalN)
      nTreatmentClusters == nTreatmentClustersOf(c, totalN)
      nTreatmentPatients ==
        RMul(RMul(nTreatmentClusters, c.patientsPerCluster),
             RSub(Int2R(1), c.controlAttrition))
      nObservations == RMul(nTreatmentPatients, c.nFollowups)
      avgObsPerCluster == RDiv(nObservations, nTreatmentClusters)
      designEffect ==
        RAdd(Int2R(1), RMul(RSub(avgObsPerCluster, Int2R(1)), c.iccClusterCorr))
      nEffective == RDiv(nObservations, designEffect)
      seIcc ==
        VMulV(VRat(RSub(Int2R(1), RMul(c.expectedIcc, c.expectedIcc))),
              SqrtR(RDiv(Int2R(2), RSub(nEffective, Int2R(1)))))
      ciHalfWidth == VMulV(VRat(Pct(196)), seIcc)
      lowerBound == VAddR(VNeg(ciHalfWidth), c.expectedIcc)
      canRuleOutPoor == canRuleOutPoorOf(lowerBound, c.targetIcc)
  IN  [nClusters |-> nClusters,
       nTreatmentClusters |-> nTreatmentClusters,
       nTreatmentPatients |-> nTreatmentPatients,
       nObservations |-> nObservations,
       avgObsPerCluster |-> avgObsPerCluster,
       designEffect |-> designEffect,
       nEffective |-> nEffective,
       seIcc |-> seIcc,
       ciHalfWidth |-> ciHalfWidth,
       lowerBound |-> lowerBound,
       canRuleOutPoor |-> canRuleOutPoor]

calcIccValidation(c, totalN) ==
  LET l == calcIccValidationLocals(c, totalN)
  IN  [nTreatmentPatients |-> Round(l.nTreatmentPatients),
       nTreatmentClusters |-> l.nTreatmentClusters,
       nObservations |-> Round(l.nObservations),
       nEffective |-> Round(l.nEffective),
       seIcc |-> l.seIcc,
       ciHalfWidth |-> l.ciHalfWidth,
       lowerBound |-> l.lowerBound,
       upperBound |-> VAddR(l.ciHalfWidth, c.expectedIcc),
       canRuleOutPoor |-> l.canRuleOutPoor]

-----------------------------------------------------------------------------
(* The curve of src/unnamed/part_000 and the component's state *)

\* one pass of the loop body of powerData
powerDataPoint(c, n) ==
  LET hamd == calcHamdMDE(c, Int2R(n))
      retention == calcRetentionMDE(c, Int2R(n))
      iccVal == calcIccValidation(c, Int2R(n))
  IN  [n |-> n,
       clusters |-> hamd.nClusters,
       hamdMDE |-> hamd.mde,
       hamdBaselineMDE |-> hamd.baselineMDE,
       hamdD |-> hamd.effectSize,
       retentionMDE |-> retention.mde,
       retentionTreatment |-> retention.treatmentRate,
       iccCiWidth |-> VMulR(iccVal.ciHalfWidth, Int2R(2)),
       iccLowerBound |-> iccVal.lowerBound]

\* for (let n = ...; n <= 1300; n += 50) data.push(...)
RECURSIVE powerDataLoop(_, _)
powerDataLoop(c, n) ==
  IF n <= 1300 THEN <<powerDataPoint(c, n)>> \o powerDataLoop(c, n + 50) ELSE << >>

\* a sweep that skips its first point
powerData_From450(c) == powerDataLoop(c, 450)

\* the body of the powerData memo, run in a render with closure c
powerDataOf(c) == powerDataLoop(c, 400)

\* the dependency list without clusterSizeCV, as it was before that setting
powerDataDeps_NoCV(s, zAlpha, zBeta, mvm) ==
  <<s.power, s.alpha, s.iccHamd, s.iccRetention, s.r2Hamd, s.r2Retention,
    s.patientsPerCluster, s.nClinicians, s.controlAttrition,
    s.treatmentRatio, s.survivalEfficiency, mvm, zAlpha, zBeta,
    s.expectedIcc, s.iccClusterCorr, s.nFollowups>>

\* the dependency list of the powerData memo
powerDataDeps(s, zAlpha, zBeta, mvm) ==
  <<s.power, s.alpha, s.iccHamd, s.iccRetention, s.r2Hamd, s.r2Retention,
    s.patientsPerCluster, s.nClinicians, s.clusterSizeCV, s.controlAttrition,
    s.treatmentRatio, s.survivalEfficiency, mvm, zAlpha, zBeta,
    s.expectedIcc, s.iccClusterCorr, s.nFollowups>>

\* the dependency list of the measurementVarianceMultiplier memo
multiplierDeps(s) ==
  <<useRaschOf(s.measurementModel), useMFRMOf(s.measurementModel),
    s.sumScoreReliability, s.raschReliability, s.raterVarianceProp>>

VARIABLES
  settings,     \* the twenty useState values of the component
  memo,         \* the useMemo cells: zAlpha, zBeta, measurementVarianceMultiplier, powerData
  storage,      \* what localStorage holds under STORAGE_KEY
  mounted,      \* whether the component has rendered
  initial,      \* const initial = loadSettings(), read once at the mount
  call,         \* the last direct call of a calculator and what it returned
  showRCode,    \* useState(false): whether the R code section is open
  webRStatus,   \* useState("idle"): idle, loading, ready, running, error
  webROutput,   \* useState(""): the text under "R Output:"
  webRInstance, \* useState(null): the initialised WebR object
  pending       \* the invocations of runRCode that wait at an await

\* the state of the R code section
webRVars == <<showRCode, webRStatus, webROutput, webRInstance, pending>>

vars == <<settings, memo, storage, mounted, initial, call, webRVars>>

\* what webROutput holds: a text, and for the output of an evaluation the code
\* that was evaluated
Text(t) == [text |-> t, rCode |-> << >>]

\* the R code section after the useState initialisers, with no call of
\* runRCode made
WebRIdle ==
  /\ showRCode = FALSE
  /\ webRStatus = "idle"
  /\ webROutput = Text("")
  /\ webRInstance = "null"
  /\ pending = << >>

\* a useMemo cell before the first render holds nothing
NoMemo ==
  [zAlpha |-> [deps |-> << >>, value |-> NaN],
   zBeta |-> [deps |-> << >>, value |-> NaN],
   measurementVarianceMultiplier |-> [deps |-> << >>, value |-> NaN],
   powerData |-> [deps |-> << >>, from |-> FreshClosure(defaults)]]

NoCall == [fn |-> "none"]

\* One render: each useMemo keeps its value when its dependencies are unchanged
\* and runs its body otherwise.  The powerData cell records the closure its
\* body ran in; the curve it holds is powerDataOf of that closure.
Render(m, s) ==
  LET zAlpha == IF m.zAlpha.deps = <<s.alpha>> THEN m.zAlpha.value
                ELSE zAlphaOf(s.alpha)
      zBeta  == IF m.zBeta.deps = <<s.power>> THEN m.zBeta.value
                ELSE zBetaOf(s.power)
      mvm    == IF m.measurementVarianceMultiplier.deps = multiplierDeps(s)
                THEN m.measurementVarianceMultiplier.value
                ELSE measurementVarianceMultiplierOf(
                       useRaschOf(s.measurementModel), useMFRMOf(s.measurementModel),
                       s.sumScoreReliability, s.raschReliability, s.raterVarianceProp)
      deps   == powerDataDeps(s, zAlpha, zBeta, mvm)
  IN  [zAlpha |-> [deps |-> <<s.alpha>>, value |-> zAlpha],
       zBeta |-> [deps |-> <<s.power>>, value |-> zBeta],
       measurementVarianceMultiplier |-> [deps |-> multiplierDeps(s), value |-> mvm],
       powerData |-> IF m.powerData.deps = deps THEN m.powerData
                     ELSE [deps |-> deps, from |-> Closure(s, zAlpha, zBeta, mvm)]]

\* the closure of the current render and the values it displays
closure ==
  Closure(settings, memo.zAlpha.value, memo.zBeta.value,
          memo.measurementVarianceMultiplier.value)

powerData == powerDataOf(memo.powerData.from)

\* a current design that takes the clinicians for the patients
currentN_Clinicians == settings.nClinicians

currentN == RMul(settings.nClinicians, settings.patientsPerCluster)

currentHamd == calcHamdMDE(closure, currentN)

currentRetention == calcRetentionMDE(closure, currentN)

currentIcc == calcIccValidation(closure, currentN)

\* localStorage under STORAGE_KEY: nothing, the JSON text of an object, or text
\* that JSON.parse rejects
NoItem == [kind |-> "none"]

Saved(obj) == [kind |-> "json", obj |-> obj]

Corrupt == [kind |-> "corrupt"]

\* JSON.stringify writes a number that is not finite as null
JSONstringify(obj) ==
  Saved([k \in DOMAIN obj |->
           IF k # "measurementModel" /\ ~IsFinite(obj[k]) THEN "null" ELSE obj[k]])

\* settings that are restored only from an item that holds every one of them
loadSettings_AllOrNothing(st) ==
  IF st.kind = "json" /\ DOMAIN st.obj = DOMAIN defaults THEN st.obj ELSE defaults

\* { ...defaults, ...JSON.parse(saved) }, and defaults when nothing is saved or
\* JSON.parse throws
loadSettings(st) ==
  IF st.kind = "json"
  THEN [k \in SettingKeys |-> IF k \in DOMAIN st.obj THEN st.obj[k] ELSE defaults[k]]
  ELSE defaults

\* useState(initial.nClinicians || 100): 0 and NaN are falsy
InitialState(loaded) ==
  [loaded EXCEPT !.nClinicians =
     IF loaded.nClinicians.n = 0 THEN Int2R(100) ELSE loaded.nClinicians]

-----------------------------------------------------------------------------
(* The component of src/unnamed/part_000: mount and the onChange handlers *)

\* at most this many controls differ from their value at the mount
MaxChanged == 2

\* the values each control can send (a subset of the control's options)
powerOptions == {Pct(80), Pct(90)}

alphaOptions == {Mil(25), Pct(1)}

nCliniciansOptions == {Int2R(100), Int2R(60)}

patientsPerClusterOptions == {Int2R(10), Int2R(15)}

clusterSizeCVOptions == {Int2R(0), Pct(40)}

controlAttritionOptions == {Pct(30), Pct(40)}

treatmentRatioOptions == {Int2R(3), Int2R(4)}

iccHamdRange == {Pct(4), Pct(10)}

r2HamdRange == {Pct(35), Pct(20)}

iccRetentionRange == {Pct(5), Pct(10)}

r2RetentionRange == {Pct(20)}

survivalEfficiencyRange == {Int2R(4), Int2R(1)}

measurementModelOptions == {"sum", "rasch", "mfrm"}

sumScoreReliabilityRange == {Pct(86), Pct(92)}

raschReliabilityRange == {Pct(91), Pct(85)}

raterVariancePropRange == {Pct(7), Pct(15)}

expectedIccRange == {Pct(80), Pct(70)}

targetIccRange == {Pct(75), Pct(80)}

nFollowupsOptions == {Int2R(4), Int2R(2)}

iccClusterCorrRange == {Pct(3), Pct(10)}

\* what localStorage may hold when the page opens
StoredItems ==
  {NoItem, Corrupt, Saved([power |-> Pct(90), treatmentRatio |-> Int2R(4)])}

\* a save that leaves nClinicians out of the stored object
SaveEffect_NoClinicians(s) ==
  JSONstringify([k \in DOMAIN s \ {"nClinicians"} |-> s[k]])

\* the effect that saves the settings after a render in which one changed
SaveEffect(s) == JSONstringify(s)

\* the first render: loadSettings, the useState initialisers, memos, save effect
Mount ==
  /\ ~mounted
  /\ LET s0 == InitialState(loadSettings(storage))
     IN  /\ initial' = loadSettings(storage)
         /\ settings' = s0
         /\ memo' = Render(NoMemo, s0)
         /\ storage' = SaveEffect(s0)
  /\ mounted' = TRUE
  /\ UNCHANGED <<call, webRVars>>

\* an onChange handler: the setter, the render it triggers and the save effect
SetState(k, v) ==
  /\ v # settings[k]
  /\ LET s1 == [settings EXCEPT ![k] = v]
     IN  /\ Cardinality({f \in SettingKeys : s1[f] # InitialState(initial)[f]})
              <= MaxChanged
         /\ settings' = s1
         /\ memo' = Render(memo, s1)
         /\ storage' = SaveEffect(s1)
  /\ UNCHANGED <<mounted, initial, call, webRVars>>

setPower == \E v \in powerOptions : mounted /\ SetState("power", v)

setAlpha == \E v \in alphaOptions : mounted /\ SetState("alpha", v)

setNClinicians == \E v \in nCliniciansOptions : mounted /\ SetState("nClinicians", v)

setPatientsPerCluster ==
  \E v \in patientsPerClusterOptions : mounted /\ SetState("patientsPerCluster", v)

setClusterSizeCV == \E v \in clusterSizeCVOptions : mounted /\ SetState("clusterSizeCV", v)

setControlAttrition ==
  \E v \in controlAttritionOptions : mounted /\ SetState("controlAttrition", v)

setTreatmentRatio == \E v \in treatmentRatioOptions : mounted /\ SetState("treatmentRatio", v)

setIccHamd == \E v \in iccHamdRange : mounted /\ SetState("iccHamd", v)

setR2Hamd == \E v \in r2HamdRange : mounted /\ SetState("r2Hamd", v)

setIccRetention == \E v \in iccRetentionRange : mounted /\ SetState("iccRetention", v)

setR2Retention == \E v \in r2RetentionRange : mounted /\ SetState("r2Retention", v)

setSurvivalEfficiency ==
  \E v \in survivalEfficiencyRange : mounted /\ SetState("survivalEfficiency", v)

setMeasurementModel ==
  \E v \in measurementModelOptions : mounted /\ SetState("measurementModel", v)

setSumScoreReliability ==
  \E v \in sumScoreReliabilityRange : mounted /\ SetState("sumScoreReliability", v)

setRaschReliability ==
  \E v \in raschReliabilityRange : mounted /\ SetState("raschReliability", v)

setRaterVarianceProp ==
  \E v \in raterVariancePropRange : mounted /\ SetState("raterVarianceProp", v)

setExpectedIcc == \E v \in expectedIccRange : mounted /\ SetState("expectedIcc", v)

setTargetIcc == \E v \in targetIccRange : mounted /\ SetState("targetIcc", v)

setNFollowups == \E v \in nFollowupsOptions : mounted /\ SetState("nFollowups", v)

setIccClusterCorr == \E v \in iccClusterCorrRange : mounted /\ SetState("iccClusterCorr", v)

Init ==
  /\ storage \in StoredItems
  /\ settings = defaults
  /\ memo = NoMemo
  /\ mounted = FALSE
  /\ initial = defaults
  /\ call = NoCall
  /\ WebRIdle

Next ==
  \/ Mount
  \/ setPower
  \/ setAlpha
  \/ setNClinicians
  \/ setPatientsPerCluster
  \/ setClusterSizeCV
  \/ setControlAttrition
  \/ setTreatmentRatio
  \/ setIccHamd
  \/ setR2Hamd
  \/ setIccRetention
  \/ setR2Retention
  \/ setSurvivalEfficiency
  \/ setMeasurementModel
  \/ setSumScoreReliability
  \/ setRaschReliability
  \/ setRaterVarianceProp
  \/ setExpectedIcc
  \/ setTargetIcc
  \/ setNFollowups
  \/ setIccClusterCorr

Spec == Init /\ [][Next]_vars

\* C7: the curve shown is the curve computed afresh from the current settings
C7_CurveIsFresh ==
  mounted =>
    \/ memo.powerData.from = FreshClosure(settings)
    \/ powerData = powerDataOf(FreshClosure(settings))


-----------------------------------------------------------------------------
(* src/src/App.js: the earlier version of the component.  Its z tables, its *)
(* measurementVarianceMultiplier and its calcIccValidation are literally    *)
(* those of src/unnamed/part_000; its two MDE calculators have no cluster   *)
(* size CV, it keeps nothing in localStorage and it has the threshold search *)

App_defaults ==
  [power |-> Pct(80), alpha |-> Mil(25), iccHamd |-> Pct(4),
   iccRetention |-> Pct(5), r2Hamd |-> Pct(35), r2Retention |-> Pct(5),
   patientsPerCluster |-> Int2R(10), controlAttrition |-> Pct(30),
   treatmentRatio |-> Int2R(3), measurementModel |-> "sum",
   sumScoreReliability |-> Pct(86), raschReliability |-> Pct(91),
   raterVarianceProp |-> Pct(7), targetIcc |-> Pct(75),
   expectedIcc |-> Pct(80), iccClusterCorr |-> Pct(3),
   nFollowups |-> Int2R(4), survivalEfficiency |-> Int2R(4)]

App_SettingKeys == DOMAIN App_defaults

\* the variables of a render that the calculators of App.js read
App_Closure(s, zAlpha, zBeta, mvm) ==
  [patientsPerCluster |-> s.patientsPerCluster,
   treatmentRatio |-> s.treatmentRatio,
   controlAttrition |-> s.controlAttrition,
   r2Hamd |-> s.r2Hamd,
   iccHamd |-> s.iccHamd,
   iccRetention |-> s.iccRetention,
   r2Retention |-> s.r2Retention,
   survivalEfficiency |-> s.survivalEfficiency,
   nFollowups |-> s.nFollowups,
   iccClusterCorr |-> s.iccClusterCorr,
   expectedIcc |-> s.expectedIcc,
   targetIcc |-> s.targetIcc,
   zAlpha |-> zAlpha,
   zBeta |-> zBeta,
   measurementVarianceMultiplier |-> mvm]

App_FreshClosure(s) ==
  App_Closure(s, zAlphaOf(s.alpha), zBetaOf(s.power),
              measurementVarianceMultiplierOf(useRaschOf(s.measurementModel),
                useMFRMOf(s.measurementModel), s.sumScoreReliability,
                s.raschReliability, s.raterVarianceProp))

App_calcHamdMDE(c, totalN) ==
  LET nClusters == Round(RDiv(totalN, c.patientsPerCluster))
      treatmentProportion == RDiv(c.treatmentRatio, RAdd(c.treatmentRatio, Int2R(1)))
      nTreatmentClusters == Round(RMul(nClusters, treatmentProportion))
      nControlClusters == RSub(nClusters, nTreatmentClusters)
      nTreatmentPatients ==
        RMul(RMul(nTreatmentClusters, c.patientsPerCluster),
             RSub(Int2R(1), c.controlAttrition))
      nControlPatients ==
        RMul(RMul(nControlClusters, c.patientsPerCluster),
             RSub(Int2R(1), c.controlAttrition))
      nHarmonic ==
        RDiv(RMul(RMul(Int2R(2), nTreatmentPatients), nControlPatients),
             RAdd(nTreatmentPatients, nControlPatients))
      sigma2 == Int2R(49)
      sigma2Adj == RMul(sigma2, RSub(Int2R(1), c.r2Hamd))
      clusterSize == RMul(c.patientsPerCluster, RSub(Int2R(1), c.controlAttrition))
      designEffect == RAdd(Int2R(1), RMul(RSub(clusterSize, Int2R(1)), c.iccHamd))
      ipcwVIF == Pct(120)
      repeatedMeasuresGain == Pct(143)
      baseVariance == PDiv(<<sigma2Adj, designEffect, ipcwVIF>>, repeatedMeasuresGain)
      netVariance == PMul(baseVariance, c.measurementVarianceMultiplier)
      zSum == RAdd(c.zAlpha, c.zBeta)
      baselineMDE == VMulR(Sqrt(PDiv(<<Int2R(2)>> \o baseVariance, nHarmonic)), zSum)
      mde == VMulR(Sqrt(PDiv(<<Int2R(2)>> \o netVariance, nHarmonic)), zSum)
  IN  [mde |-> mde,
       baselineMDE |-> baselineMDE,
       effectSize |-> VDivR(mde, Int2R(7)),
       nClusters |-> nClusters,
       nTreatmentClusters |-> nTreatmentClusters,
       nControlClusters |-> nControlClusters,
       nCompleters |-> Round(RAdd(nTreatmentPatients, nControlPatients)),
       varianceReduction |->
         RMul(RSub(Int2R(1), c.measurementVarianceMultiplier), Int2R(100))]

\* a retention calculator that allots treatment clusters in whole blocks of
\* treatmentRatio
App_calcRetentionMDE_Blocks(c, totalN) ==
  LET nClusters == Round(RDiv(totalN, c.patientsPerCluster))
      treatmentProportion == RDiv(c.treatmentRatio, RAdd(c.treatmentRatio, Int2R(1)))
      nTreatmentClusters ==
        RMul(Round(RDiv(nClusters, RAdd(c.treatmentRatio, Int2R(1)))), c.treatmentRatio)
      nControlClusters == RSub(nClusters, nTreatmentClusters)
      nTreatment == RMul(nTreatmentClusters, c.patientsPerCluster)
      nControl == RMul(nControlClusters, c.patientsPerCluster)
      designEffect ==
        RAdd(Int2R(1), RMul(RSub(c.patientsPerCluster, Int2R(1)), c.iccRetention))
      p0 == c.controlAttrition
      baseSE ==
        SqrtR(RMul(RMul(p0, RSub(Int2R(1), p0)),
                   RAdd(RDiv(Int2R(1), nTreatment), RDiv(Int2R(1), nControl))))
      clusteredSE == VMulV(baseSE, SqrtR(designEffect))
      adjustedSE == VMulV(clusteredSE, SqrtR(RSub(Int2R(1), c.r2Retention)))
      survivalSE == VDivV(adjustedSE, SqrtR(c.survivalEfficiency))
      zSum == RAdd(c.zAlpha, c.zBeta)
      mde == VMulR(survivalSE, zSum)
  IN  [mde |-> VMulR(mde, Int2R(100)),
       controlRate |-> RMul(p0, Int2R(100)),
       treatmentRate |-> VMulR(VAddR(VNeg(mde), p0), Int2R(100)),
       nClusters |-> nClusters,
       binaryMDE |-> VMulR(VMulR(adjustedSE, zSum), Int2R(100))]

App_calcRetentionMDE(c, totalN) ==
  LET nClusters == Round(RDiv(totalN, c.patientsPerCluster))
      treatmentProportion == RDiv(c.treatmentRatio, RAdd(c.treatmentRatio, Int2R(1)))
      nTreatmentClusters == Round(RMul(nClusters, treatmentProportion))
      nControlClusters == RSub(nClusters, nTreatmentClusters)
      nTreatment == RMul(nTreatmentClusters, c.patientsPerCluster)
      nControl == RMul(nControlClusters, c.patientsPerCluster)
      designEffect ==
        RAdd(Int2R(1), RMul(RSub(c.patientsPerCluster, Int2R(1)), c.iccRetention))
      p0 == c.controlAttrition
      baseSE ==
        SqrtR(RMul(RMul(p0, RSub(Int2R(1), p0)),
                   RAdd(RDiv(Int2R(1), nTreatment), RDiv(Int2R(1), nControl))))
      clusteredSE == VMulV(baseSE, SqrtR(designEffect))
      adjustedSE == VMulV(clusteredSE, SqrtR(RSub(Int2R(1), c.r2Retention)))
      survivalSE == VDivV(adjustedSE, SqrtR(c.survivalEfficiency))
      zSum == RAdd(c.zAlpha, c.zBeta)
      mde == VMulR(survivalSE, zSum)
  IN  [mde |-> VMulR(mde, Int2R(100)),
       controlRate |-> RMul(p0, Int2R(100)),
       treatmentRate |-> VMulR(VAddR(VNeg(mde), p0), Int2R(100)),
       nClusters |-> nClusters,
       binaryMDE |-> VMulR(VMulR(adjustedSE, zSum), Int2R(100))]

\* one pass of the loop body of powerData in App.js
App_powerDataPoint(c, n) ==
  LET hamd == App_calcHamdMDE(c, Int2R(n))
      retention == App_calcRetentionMDE(c, Int2R(n))
      iccVal == calcIccValidation(c, Int2R(n))
  IN  [n |-> n,
       clusters |-> hamd.nClusters,
       hamdMDE |-> hamd.mde,
       hamdBaselineMDE |-> hamd.baselineMDE,
       hamdD |-> hamd.effectSize,
       retentionMDE |-> retention.mde,
       retentionTreatment |-> retention.treatmentRate,
       iccCiWidth |-> VMulR(iccVal.ciHalfWidth, Int2R(2)),
       iccLowerBound |-> iccVal.lowerBound]

RECURSIVE App_powerDataLoop(_, _)
App_powerDataLoop(c, n) ==
  IF n <= 1300 THEN <<App_powerDataPoint(c, n)>> \o App_powerDataLoop(c, n + 50)
  ELSE << >>

App_powerDataOf(c) == App_powerDataLoop(c, 400)

\* the dependency list of the powerData memo of App.js
App_powerDataDeps(s, zAlpha, zBeta, mvm) ==
  <<s.power, s.alpha, s.iccHamd, s.iccRetention, s.r2Hamd, s.r2Retention,
    s.patientsPerCluster, s.controlAttrition, s.treatmentRatio,
    s.survivalEfficiency, mvm, zAlpha, zBeta, s.expectedIcc, s.iccClusterCorr,
    s.nFollowups>>

\* one render of App.js
App_Render(m, s) ==
  LET zAlpha == IF m.zAlpha.deps = <<s.alpha>> THEN m.zAlpha.value
                ELSE zAlphaOf(s.alpha)
      zBeta  == IF m.zBeta.deps = <<s.power>> THEN m.zBeta.value
                ELSE zBetaOf(s.power)
      mvm    == IF m.measurementVarianceMultiplier.deps = multiplierDeps(s)
                THEN m.measurementVarianceMultiplier.value
                ELSE measurementVarianceMultiplierOf(
                       useRaschOf(s.measurementModel), useMFRMOf(s.measurementModel),
                       s.sumScoreReliability, s.raschReliability, s.raterVarianceProp)
      deps   == App_powerDataDeps(s, zAlpha, zBeta, mvm)
  IN  [zAlpha |-> [deps |-> <<s.alpha>>, value |-> zAlpha],
       zBeta |-> [deps |-> <<s.power>>, value |-> zBeta],
       measurementVarianceMultiplier |-> [deps |-> multiplierDeps(s), value |-> mvm],
       powerData |-> IF m.powerData.deps = deps THEN m.powerData
                     ELSE [deps |-> deps, from |-> App_Closure(s, zAlpha, zBeta, mvm)]]

\* JavaScript values that are a number or a string
JsNumber(x) == [kind |-> "number", value |-> x]

JsString(t) == [kind |-> "string", value |-> t]

\* the number a value converts to in arithmetic: text that is no numeral is NaN
ToNumber(v) ==
  IF v.kind = "number" THEN v.value
  ELSE IF v.value = ">1300" THEN NaN
  ELSE NaN

\* calcFunc(n), for the two calculators findNForMDE is called with
App_calcFunc(calcFunc, c, n) ==
  IF calcFunc = "calcHamdMDE" THEN App_calcHamdMDE(c, n)
  ELSE App_calcRetentionMDE(c, n)

\* for (let n = ...; n <= 1300; n += 10) { if (result[field] <= targetMDE) return n }
\* over the iterations lo..hi of the loop, iteration i having n = 400 + 10 * i.
\* The iterations run in the loop's order and stop at the first return: those
\* of the first half, then, when none of them returned, those of the second
\* half (halving keeps the nesting of the evaluation at 7 instead of 91)
RECURSIVE findNForMDELoop(_, _, _, _, _, _)
findNForMDELoop(c, targetMDE, calcFunc, field, lo, hi) ==
  IF lo = hi
  THEN LET n == 400 + 10 * lo
           result == App_calcFunc(calcFunc, c, Int2R(n))
       IN  IF VLe(result[field], VRat(targetMDE)) THEN JsNumber(Int2R(n))
           ELSE JsString(">1300")
  ELSE LET mid == (lo + hi) \div 2
           first == findNForMDELoop(c, targetMDE, calcFunc, field, lo, mid)
       IN  IF first.kind = "number" THEN first
           ELSE findNForMDELoop(c, targetMDE, calcFunc, field, mid + 1, hi)

\* a search that falls back to the end of the range when it finds nothing
findNForMDE_Clamped(c, targetMDE, calcFunc, field) ==
  LET r == findNForMDELoop(c, targetMDE, calcFunc, field, 0, 90)
  IN  IF r.kind = "string" THEN JsNumber(Int2R(1300)) ELSE r

findNForMDE(c, targetMDE, calcFunc, field) ==
  findNForMDELoop(c, targetMDE, calcFunc, field, 0, 90)

\* the closure of the current render of App.js and what it computes
App_closure ==
  App_Closure(settings, memo.zAlpha.value, memo.zBeta.value,
              memo.measurementVarianceMultiplier.value)

nFor2HAMDpoints == findNForMDE(App_closure, Int2R(2), "calcHamdMDE", "mde")

nFor3HAMDpoints == findNForMDE(App_closure, Int2R(3), "calcHamdMDE", "mde")

nFor7ppRetention == findNForMDE(App_closure, Int2R(7), "calcRetentionMDE", "mde")

\* Key Findings: "Need N = {nFor2HAMDpoints} patients", "That's
\* {Math.round(nFor2HAMDpoints / patientsPerCluster)} clusters"
KeyFindings ==
  [patients |-> nFor2HAMDpoints,
   clusters |->
     JsNumber(Round(RDiv(ToNumber(nFor2HAMDpoints), settings.patientsPerCluster)))]

App_NoMemo ==
  [zAlpha |-> [deps |-> << >>, value |-> NaN],
   zBeta |-> [deps |-> << >>, value |-> NaN],
   measurementVarianceMultiplier |-> [deps |-> << >>, value |-> NaN],
   powerData |-> [deps |-> << >>, from |-> App_FreshClosure(App_defaults)]]

\* around the defaults at most this many controls of App.js differ from them
App_MaxChanged == 1

\* the worst case for the 2-point threshold: power 0.90, alpha 0.01, ICC 0.10,
\* R2 0.20, ratio 4:1, attrition 40%, 15 patients per cluster; its controls are
\* explored in every combination of default and worst value
App_WorstCase ==
  [power |-> Pct(90), alpha |-> Pct(1), iccHamd |-> Pct(10), r2Hamd |-> Pct(20),
   treatmentRatio |-> Int2R(4), controlAttrition |-> Pct(40),
   patientsPerCluster |-> Int2R(15)]

App_Explored(s) ==
  LET changed == {f \in App_SettingKeys : s[f] # App_defaults[f]}
  IN  \/ Cardinality(changed) <= App_MaxChanged
      \/ \A f \in changed : f \in DOMAIN App_WorstCase /\ s[f] = App_WorstCase[f]

\* the values each control of App.js can send (a subset of its options)
App_Options ==
  [power |-> {Pct(70), Pct(80), Pct(90)},
   alpha |-> {Pct(5), Mil(25), Pct(1)},
   iccHamd |-> {Pct(4), Pct(10)},
   iccRetention |-> {Pct(5), Pct(10)},
   r2Hamd |-> {Pct(20), Pct(35)},
   r2Retention |-> {Int2R(0), Pct(5)},
   patientsPerCluster |-> {Int2R(5), Int2R(10), Int2R(15)},
   controlAttrition |-> {Pct(30), Pct(40)},
   treatmentRatio |-> {Int2R(1), Int2R(3), Int2R(4)},
   measurementModel |-> {"sum", "rasch", "mfrm"},
   sumScoreReliability |-> {Pct(86), Pct(92)},
   raschReliability |-> {Pct(85), Pct(91)},
   raterVarianceProp |-> {Pct(7), Pct(15)},
   targetIcc |-> {Pct(75), Pct(80)},
   expectedIcc |-> {Pct(70), Pct(80)},
   iccClusterCorr |-> {Pct(3), Pct(10)},
   nFollowups |-> {Int2R(2), Int2R(4)},
   survivalEfficiency |-> {Int2R(1), Int2R(4)}]

\* the first render of App.js
App_Mount ==
  /\ ~mounted
  /\ settings' = App_defaults
  /\ memo' = App_Render(App_NoMemo, App_defaults)
  /\ mounted' = TRUE
  /\ UNCHANGED <<storage, initial, call, webRVars>>

\* an onChange handler of App.js: the setter and the render it triggers
App_SetState(k, v) ==
  /\ v # settings[k]
  /\ App_Explored([settings EXCEPT ![k] = v])
  /\ settings' = [settings EXCEPT ![k] = v]
  /\ memo' = App_Render(memo, [settings EXCEPT ![k] = v])
  /\ UNCHANGED <<mounted, storage, initial, call, webRVars>>

App_setPower ==
  \E v \in App_Options.power : mounted /\ App_SetState("power", v)

App_setAlpha ==
  \E v \in App_Options.alpha : mounted /\ App_SetState("alpha", v)

App_setIccHamd ==
  \E v \in App_Options.iccHamd : mounted /\ App_SetState("iccHamd", v)

App_setIccRetention ==
  \E v \in App_Options.iccRetention : mounted /\ App_SetState("iccRetention", v)

App_setR2Hamd ==
  \E v \in App_Options.r2Hamd : mounted /\ App_SetState("r2Hamd", v)

App_setR2Retention ==
  \E v \in App_Options.r2Retention : mounted /\ App_SetState("r2Retention", v)

App_setPatientsPerCluster ==
  \E v \in App_Options.patientsPerCluster : mounted /\ App_SetState("patientsPerCluster", v)

App_setControlAttrition ==
  \E v \in App_Options.controlAttrition : mounted /\ App_SetState("controlAttrition", v)

App_setTreatmentRatio ==
  \E v \in App_Options.treatmentRatio : mounted /\ App_SetState("treatmentRatio", v)

App_setMeasurementModel ==
  \E v \in App_Options.measurementModel : mounted /\ App_SetState("measurementModel", v)

App_setSumScoreReliability ==
  \E v \in App_Options.sumScoreReliability : mounted /\ App_SetState("sumScoreReliability", v)

App_setRaschReliability ==
  \E v \in App_Options.raschReliability : mounted /\ App_SetState("raschReliability", v)

App_setRaterVarianceProp ==
  \E v \in App_Options.raterVarianceProp : mounted /\ App_SetState("raterVarianceProp", v)

App_setTargetIcc ==
  \E v \in App_Options.targetIcc : mounted /\ App_SetState("targetIcc", v)

App_setExpectedIcc ==
  \E v \in App_Options.expectedIcc : mounted /\ App_SetState("expectedIcc", v)

App_setIccClusterCorr ==
  \E v \in App_Options.iccClusterCorr : mounted /\ App_SetState("iccClusterCorr", v)

App_setNFollowups ==
  \E v \in App_Options.nFollowups : mounted /\ App_SetState("nFollowups", v)

App_setSurvivalEfficiency ==
  \E v \in App_Options.survivalEfficiency : mounted /\ App_SetState("survivalEfficiency", v)

InitApp ==
  /\ settings = App_defaults
  /\ memo = App_NoMemo
  /\ storage = NoItem
  /\ mounted = FALSE
  /\ initial = App_defaults
  /\ call = NoCall
  /\ WebRIdle

NextApp ==
  \/ App_Mount
  \/ App_setPower
  \/ App_setAlpha
  \/ App_setIccHamd
  \/ App_setIccRetention
  \/ App_setR2Hamd
  \/ App_setR2Retention
  \/ App_setPatientsPerCluster
  \/ App_setControlAttrition
  \/ App_setTreatmentRatio
  \/ App_setMeasurementModel
  \/ App_setSumScoreReliability
  \/ App_setRaschReliability
  \/ App_setRaterVarianceProp
  \/ App_setTargetIcc
  \/ App_setExpectedIcc
  \/ App_setIccClusterCorr
  \/ App_setNFollowups
  \/ App_setSurvivalEfficiency

SpecApp == InitApp /\ [][NextApp]_vars

\* the grid findNForMDE scans
App_Grid == {400 + 10 * i : i \in 0..90}

\* what findNForMDE must return for a call: the least grid N whose field is at
\* most the target, and the text ">1300" when the grid has none
App_FirstHit(r, targetMDE, calcFunc, field) ==
  LET hit(n) == VLe(App_calcFunc(calcFunc, App_closure, Int2R(n))[field],
                    VRat(targetMDE))
  IN  IF r.kind = "number"
      THEN /\ r.value.d = 1
           /\ r.value.n \in App_Grid
           /\ hit(r.value.n)
           /\ \A n \in App_Grid : n < r.value.n => ~hit(n)
      ELSE /\ r = JsString(">1300")
           /\ \A n \in App_Grid : ~hit(n)

\* C2: each threshold search of a render returns the first grid N (400, 410,
\* ..., 1300) at which the field is at most the target, and the text ">1300",
\* never a number, when no grid N is
C2_FirstGridN ==
  mounted =>
    /\ App_FirstHit(nFor2HAMDpoints, Int2R(2), "calcHamdMDE", "mde")
    /\ App_FirstHit(nFor3HAMDpoints, Int2R(3), "calcHamdMDE", "mde")
    /\ App_FirstHit(nFor7ppRetention, Int2R(7), "calcRetentionMDE", "mde")

\* a render in which one search returns a grid N above 400 and another finds
\* none
C2_Witness ==
  /\ mounted
  /\ nFor2HAMDpoints.kind = "number"
  /\ nFor2HAMDpoints.value.n > 400
  /\ nFor7ppRetention.kind = "string"

\* C6: when the 2-point search returns the text ">1300", Key Findings does not
\* show a clusters figure computed from it (the figure is never NaN)
C6_SentinelHandled ==
  mounted =>
    (nFor2HAMDpoints.kind = "string" =>
       ~(KeyFindings.clusters.kind = "number" /\ IsNaN(KeyFindings.clusters.value)))

\* the 2-point search finds no N for selectable parameters
C6_SentinelReached == mounted /\ nFor2HAMDpoints.kind = "string"

-----------------------------------------------------------------------------
(* The calculators called directly: a parameter set is fixed at the start   *)
(* and each step is one call.  call holds the function and its argument;    *)
(* the calculators are pure, so what the call returned is CallResult        *)

\* the parameters of a direct call, as the defaults with some settings replaced
WithSettings(over) ==
  [k \in SettingKeys |-> IF k \in DOMAIN over THEN over[k] ELSE defaults[k]]

InitCall(parameters) ==
  /\ settings \in parameters
  /\ memo = NoMemo
  /\ storage = NoItem
  /\ mounted = FALSE
  /\ initial = defaults
  /\ call = NoCall
  /\ WebRIdle

\* what a call of fn with totalN returns when the settings are s
ResultFor(s, fn, totalN) ==
  CASE fn = "calcHamdMDE" -> calcHamdMDE(FreshClosure(s), Int2R(totalN))
    [] fn = "App_calcHamdMDE" ->
         App_calcHamdMDE(App_FreshClosure(s), Int2R(totalN))
    [] fn = "calcRetentionMDE" ->
         calcRetentionMDE(FreshClosure(s), Int2R(totalN))
    [] fn = "App_calcRetentionMDE" ->
         App_calcRetentionMDE(App_FreshClosure(s), Int2R(totalN))
    [] fn = "calcIccValidation" ->
         calcIccValidation(FreshClosure(s), Int2R(totalN))
    [] fn = "powerData" -> powerDataOf(FreshClosure(s))
    [] fn = "App_powerData" -> App_powerDataOf(App_FreshClosure(s))

\* what a call of fn with totalN returns for the current parameters
ResultOf(fn, totalN) == ResultFor(settings, fn, totalN)

CallResult ==
  ResultOf(call.fn, IF "totalN" \in DOMAIN call THEN call.totalN ELSE 0)

\* totalN up to MaxSmallN, where few clusters make the roundings visible, and
\* points of the sweep
MaxSmallN == 12

HamdTotalNs == (1..MaxSmallN) \cup {400, 410, 550, 700, 1000, 1300}

HamdParameters ==
  {WithSettings(o) :
     o \in [patientsPerCluster : {Int2R(2), Int2R(5), Int2R(10), Int2R(15)},
            treatmentRatio : {Int2R(1), Int2R(2), Int2R(3), Int2R(4)},
            measurementModel : {"sum", "mfrm"}]}

\* a calculator that keeps its work in shared state: the call stores the
\* cluster size it used back into the settings
CallHamdMDE_Caching ==
  \E totalN \in HamdTotalNs :
    /\ call' = [fn |-> "calcHamdMDE", totalN |-> totalN]
    /\ settings' = [settings EXCEPT !.patientsPerCluster =
                      RMul(settings.patientsPerCluster, RSub(Int2R(1), settings.controlAttrition))]
    /\ UNCHANGED <<memo, storage, mounted, initial, webRVars>>

\* calcHamdMDE(totalN) of src/unnamed/part_000
CallHamdMDE ==
  /\ \E totalN \in HamdTotalNs :
       call' = [fn |-> "calcHamdMDE", totalN |-> totalN]
  /\ UNCHANGED <<settings, memo, storage, mounted, initial, webRVars>>

\* calcHamdMDE(totalN) of src/src/App.js
App_CallHamdMDE ==
  /\ \E totalN \in HamdTotalNs :
       call' = [fn |-> "App_calcHamdMDE", totalN |-> totalN]
  /\ UNCHANGED <<settings, memo, storage, mounted, initial, webRVars>>

InitHamd == InitCall(HamdParameters)

NextHamd == CallHamdMDE \/ App_CallHamdMDE

SpecHamd == InitHamd /\ [][NextHamd]_vars

\* C1: for fixed parameters the mde of a call is at most the mde at every
\* smaller totalN that gives at least one cluster
C1_MdeNonIncreasing ==
  call.fn \in {"calcHamdMDE", "App_calcHamdMDE"} =>
    \A N1 \in HamdTotalNs :
      (N1 < call.totalN /\ ResultOf(call.fn, N1).nClusters.n >= 1) =>
        VLe(CallResult.mde, ResultOf(call.fn, N1).mde)

\* a call whose mde is finite and strictly below the finite mde of a smaller
\* totalN with the same number of treatment clusters
C1_Witness ==
  /\ call.fn = "calcHamdMDE"
  /\ VIsFinite(CallResult.mde)
  /\ \E N1 \in HamdTotalNs :
       /\ N1 < call.totalN
       /\ VIsFinite(ResultOf(call.fn, N1).mde)
       /\ ResultOf(call.fn, N1).nTreatmentClusters = CallResult.nTreatmentClusters
       /\ VLt(CallResult.mde, ResultOf(call.fn, N1).mde)

\* the statement without the condition on the smaller totalN: with no cluster
\* at N1 (totalN below half a cluster) nHarmonic is 0/0 and mde(N1) is NaN, and
\* no comparison with NaN holds
C1_AnyTotalN ==
  call.fn \in {"calcHamdMDE", "App_calcHamdMDE"} =>
    \A N1 \in HamdTotalNs :
      N1 < call.totalN => VLe(CallResult.mde, ResultOf(call.fn, N1).mde)

\* totalN for calcIccValidation: none, a few patients, and points of the sweep
IccTotalNs == {0, 1, 2, 3, 10, 400, 1000}

IccParameters ==
  {WithSettings(o) :
     o \in [patientsPerCluster : {Int2R(1), Int2R(10)},
            controlAttrition : {Int2R(0), Pct(30)},
            nFollowups : {Int2R(1), Int2R(4)},
            treatmentRatio : {Int2R(1), Int2R(3)},
            expectedIcc : {Pct(70), Pct(75), Pct(80), Pct(95)},
            targetIcc : {Pct(60), Pct(75), Pct(80)}]}

\* calcIccValidation(totalN)
CallIccValidation ==
  /\ \E totalN \in IccTotalNs :
       call' = [fn |-> "calcIccValidation", totalN |-> totalN]
  /\ UNCHANGED <<settings, memo, storage, mounted, initial, webRVars>>

InitIcc == InitCall(IccParameters)

NextIcc == CallIccValidation

SpecIcc == InitIcc /\ [][NextIcc]_vars

\* the effective sample size inside the call
CallNEffective ==
  calcIccValidationLocals(FreshClosure(settings), Int2R(call.totalN)).nEffective

\* C5: with expectedIcc <= targetIcc a call of calcIccValidation returns
\* canRuleOutPoor = false, whatever totalN is
C5_NeverRulesOutPoor ==
  (call.fn = "calcIccValidation" /\ RLe(settings.expectedIcc, settings.targetIcc)) =>
    CallResult.canRuleOutPoor = FALSE

\* a call with expectedIcc <= targetIcc whose effective sample size is at most
\* 1 or undefined, so that its lower bound is not a finite number
C5_Witness ==
  /\ call.fn = "calcIccValidation"
  /\ RLe(settings.expectedIcc, settings.targetIcc)
  /\ ~RLt(Int2R(1), CallNEffective)
  /\ ~VIsFinite(CallResult.lowerBound)

\* C9: the interval calcIccValidation returns is made of finite numbers for
\* every totalN >= 0: the root and the divisions are guarded
C9_NEffectiveGuarded ==
  call.fn = "calcIccValidation" =>
    /\ VIsFinite(CallResult.seIcc)
    /\ VIsFinite(CallResult.ciHalfWidth)
    /\ VIsFinite(CallResult.lowerBound)
    /\ VIsFinite(CallResult.upperBound)

\* a call in which nEffective is below 1, so that the root is taken of a
\* negative number
C9_NegativeRoot ==
  /\ call.fn = "calcIccValidation"
  /\ RLt(CallNEffective, Int2R(1))
  /\ VIsNaN(CallResult.seIcc)

CurveParameters ==
  {WithSettings(o) :
     o \in [patientsPerCluster : {Int2R(5), Int2R(10), Int2R(15)},
            treatmentRatio : {Int2R(1), Int2R(3), Int2R(4)},
            controlAttrition : {Pct(30), Pct(40)},
            measurementModel : {"sum", "rasch"},
            clusterSizeCV : {Int2R(0), Pct(40)}]}

\* the body of the powerData memo of src/unnamed/part_000
GeneratePowerData ==
  /\ call' = [fn |-> "powerData"]
  /\ UNCHANGED <<settings, memo, storage, mounted, initial, webRVars>>

\* the body of the powerData memo of src/src/App.js
App_GeneratePowerData ==
  /\ call' = [fn |-> "App_powerData"]
  /\ UNCHANGED <<settings, memo, storage, mounted, initial, webRVars>>

InitCurve == InitCall(CurveParameters)

NextCurve == GeneratePowerData \/ App_GeneratePowerData

SpecCurve == InitCurve /\ [][NextCurve]_vars

\* a point of the curve holds what the three calculators return at its n
PointCarriesAll(app, pt) ==
  LET hamd == ResultOf(app \o "calcHamdMDE", pt.n)
      retention == ResultOf(app \o "calcRetentionMDE", pt.n)
      iccVal == ResultOf("calcIccValidation", pt.n)
  IN  /\ pt.clusters = hamd.nClusters
      /\ pt.hamdMDE = hamd.mde
      /\ pt.hamdBaselineMDE = hamd.baselineMDE
      /\ pt.hamdD = hamd.effectSize
      /\ pt.retentionMDE = retention.mde
      /\ pt.retentionTreatment = retention.treatmentRate
      /\ pt.iccCiWidth = VMulR(iccVal.ciHalfWidth, Int2R(2))
      /\ pt.iccLowerBound = iccVal.lowerBound

\* C4: the curve has floor((1300 - 400) / 50) + 1 = 19 points, with n = 400,
\* 450, ..., 1300 in ascending order, each holding the results of the three
\* calculators at its own n
C4_CurveShape ==
  call.fn \in {"powerData", "App_powerData"} =>
    LET data == CallResult
        app  == IF call.fn = "powerData" THEN "" ELSE "App_"
    IN  /\ Len(data) = ((1300 - 400) \div 50) + 1
        /\ Len(data) = 19
        /\ \A i \in 1..Len(data) :
             /\ data[i].n = 400 + 50 * (i - 1)
             /\ PointCarriesAll(app, data[i])

\* a curve generated for a setting other than the defaults, whose last point
\* is at 1300 and whose severity MDE there is a finite number
C4_Witness ==
  /\ call.fn = "powerData"
  /\ settings.clusterSizeCV # defaults.clusterSizeCV
  /\ CallResult[Len(CallResult)].n = 1300
  /\ VIsFinite(CallResult[Len(CallResult)].hamdMDE)

-----------------------------------------------------------------------------
(* src/unnamed/part_000 opened with settings that an earlier session, another *)
(* version or the user left in localStorage                                  *)

\* saved objects that hold values outside the ranges of the parameters
RestoredItems ==
  {Saved(o) :
     o \in [patientsPerCluster : {Int2R(0), Int2R(10)},
            treatmentRatio : {Int2R(0), Int2R(3)},
            controlAttrition : {RNeg(Pct(10)), Pct(30)},
            sumScoreReliability : {Pct(86), Int2R(1)},
            raschReliability : {Pct(91), Int2R(1)},
            measurementModel : {"sum", "rasch"}]}

InitRestore ==
  /\ storage \in RestoredItems
  /\ settings = defaults
  /\ memo = NoMemo
  /\ mounted = FALSE
  /\ initial = defaults
  /\ call = NoCall
  /\ WebRIdle

NextRestore == Mount \/ setMeasurementModel

SpecRestore == InitRestore /\ [][NextRestore]_vars

\* the ranges of the parameters: rates and proportions are not negative,
\* reliabilities are below 1, a cluster has a patient, the ratio is positive
ValidParameters(s) ==
  /\ RLe(Int2R(0), s.controlAttrition) /\ RLt(s.controlAttrition, Int2R(1))
  /\ RLt(Int2R(0), s.sumScoreReliability) /\ RLt(s.sumScoreReliability, Int2R(1))
  /\ RLt(Int2R(0), s.raschReliability) /\ RLt(s.raschReliability, Int2R(1))
  /\ RLe(Int2R(1), s.patientsPerCluster)
  /\ RLt(Int2R(0), s.treatmentRatio)

\* C8: with the reliability upgrade selected and sumScoreReliability = 1 the
\* multiplier is a number (no 0/0), and so is the mde computed with it
C8_NoDivisionByZero ==
  (/\ mounted
   /\ useRaschOf(settings.measurementModel)
   /\ settings.sumScoreReliability = Int2R(1)
   /\ RLe(Int2R(1), settings.patientsPerCluster)
   /\ RLt(Int2R(0), settings.treatmentRatio))
    => /\ ~IsNaN(memo.measurementVarianceMultiplier.value)
       /\ ~VIsNaN(currentHamd.mde)

\* the component rendered with the reliability upgrade and sumScoreReliability = 1
C8_Reached ==
  /\ mounted
  /\ useRaschOf(settings.measurementModel)
  /\ settings.sumScoreReliability = Int2R(1)
  /\ IsNaN(memo.measurementVarianceMultiplier.value)

\* C10: the component never renders, and so never runs a calculator, with a
\* parameter outside its range: a restored value out of range is rejected
C10_InvalidRejected == mounted => ValidParameters(settings)

\* the component rendered with patientsPerCluster = 0 restored from storage
C10_Reached ==
  /\ mounted
  /\ settings.patientsPerCluster = Int2R(0)
  /\ closure.patientsPerCluster = Int2R(0)

-----------------------------------------------------------------------------
(* Claims about the component of src/unnamed/part_000 under Spec *)

\* C3: in every render the measurement-model multiplier is in (0, 1], so the
\* variance reduction is not negative and the mde is at most the baseline mde
C3_MultiplierInUnitInterval ==
  mounted =>
    /\ RLt(Int2R(0), memo.measurementVarianceMultiplier.value)
    /\ RLe(memo.measurementVarianceMultiplier.value, Int2R(1))
    /\ RLe(Int2R(0), currentHamd.varianceReduction)
    /\ VLe(currentHamd.mde, currentHamd.baselineMDE)

\* the sliders set the Rasch reliability below the sum-score reliability with
\* the reliability upgrade selected, and the multiplier exceeds 1
C3_RaschBelowSum ==
  /\ mounted
  /\ useRaschOf(settings.measurementModel)
  /\ RLt(settings.raschReliability, settings.sumScoreReliability)
  /\ RLt(Int2R(1), memo.measurementVarianceMultiplier.value)

\* a render after two changes: one of a setting the curve reads, which ran the
\* powerData memo again, then one of targetIcc, which the curve does not read
\* and which left the memo as it was
C7_Witness ==
  /\ mounted
  /\ settings.iccHamd # InitialState(initial).iccHamd
  /\ settings.targetIcc # InitialState(initial).targetIcc
  /\ memo.powerData.from.iccHamd = settings.iccHamd
  /\ memo.powerData.from.targetIcc # settings.targetIcc

-----------------------------------------------------------------------------
(* The R verification code of src/unnamed/part_000: rCodeForExecution *)

\* R's qnorm to four decimals, at the arguments the alpha and power controls
\* produce; NaN stands for an argument outside this table
qnorm(p) ==
  CASE p = Pct(95) -> Q(16449, 10000)
    [] p = Mil(975) -> Q(19600, 10000)
    [] p = Pct(99) -> Q(23263, 10000)
    [] p = Pct(70) -> Q(5244, 10000)
    [] p = Pct(75) -> Q(6745, 10000)
    [] p = Pct(80) -> Q(8416, 10000)
    [] p = Pct(85) -> Q(10364, 10000)
    [] p = Pct(90) -> Q(12816, 10000)
    [] OTHER -> NaN

\* R's round: nearest integer, halves to the even neighbour
R_round(x) ==
  IF x.d = 0 THEN x
  ELSE LET f == x.n \div x.d
           twice == 2 * (x.n - f * x.d)
       IN  IF twice < x.d THEN Int2R(f)
           ELSE IF twice > x.d THEN Int2R(f + 1)
           ELSE IF f % 2 = 0 THEN Int2R(f) ELSE Int2R(f + 1)

\* the assignments at the head of rCodeForExecution: each ${...} writes the
\* JavaScript number as a decimal literal that R reads as the same number
rCodeForExecution(s) ==
  [total_n |-> RMul(s.nClinicians, s.patientsPerCluster),
   patients_per_cluster |-> s.patientsPerCluster,
   cluster_size_cv |-> s.clusterSizeCV,
   treatment_ratio |-> s.treatmentRatio,
   control_attrition |-> s.controlAttrition,
   power |-> s.power,
   alpha |-> s.alpha,
   z_alpha |-> qnorm(RSub(Int2R(1), s.alpha)),
   z_beta |-> qnorm(s.power),
   icc_hamd |-> s.iccHamd,
   r2_hamd |-> s.r2Hamd,
   sigma_hamd |-> Int2R(7),
   icc_retention |-> s.iccRetention,
   r2_retention |-> s.r2Retention,
   survival_efficiency |-> s.survivalEfficiency]

\* calc_hamd_mde <- function(total_n), in the environment e of the script
calc_hamd_mde(e, total_n) ==
  LET n_clusters == R_round(RDiv(total_n, e.patients_per_cluster))
      treatment_prop == RDiv(e.treatment_ratio, RAdd(e.treatment_ratio, Int2R(1)))
      n_treatment_clusters == R_round(RMul(n_clusters, treatment_prop))
      n_control_clusters == RSub(n_clusters, n_treatment_clusters)
      n_treatment ==
        RMul(RMul(n_treatment_clusters, e.patients_per_cluster),
             RSub(Int2R(1), e.control_attrition))
      n_control ==
        RMul(RMul(n_control_clusters, e.patients_per_cluster),
             RSub(Int2R(1), e.control_attrition))
      n_harmonic ==
        RDiv(RMul(RMul(Int2R(2), n_treatment), n_control),
             RAdd(n_treatment, n_control))
      sigma2 == RMul(e.sigma_hamd, e.sigma_hamd)
      sigma2_adj == RMul(sigma2, RSub(Int2R(1), e.r2_hamd))
      cluster_size == RMul(e.patients_per_cluster, RSub(Int2R(1), e.control_attrition))
      design_effect ==
        RMul(RAdd(Int2R(1), RMul(RSub(cluster_size, Int2R(1)), e.icc_hamd)),
             RAdd(Int2R(1), RMul(e.cluster_size_cv, e.cluster_size_cv)))
      ipcw_vif == Pct(120)
      repeated_measures_gain == Pct(143)
      net_variance ==
        PDiv(<<sigma2_adj, design_effect, ipcw_vif>>, repeated_measures_gain)
      mde == VMulR(Sqrt(PDiv(<<Int2R(2)>> \o net_variance, n_harmonic)),
                   RAdd(e.z_alpha, e.z_beta))
  IN  [mde |-> mde,
       effect_size |-> VDivR(mde, e.sigma_hamd),
       n_clusters |-> n_clusters,
       n_completers |-> R_round(RAdd(n_treatment, n_control))]

\* calc_retention_mde <- function(total_n)
calc_retention_mde(e, total_n) ==
  LET n_clusters == R_round(RDiv(total_n, e.patients_per_cluster))
      treatment_prop == RDiv(e.treatment_ratio, RAdd(e.treatment_ratio, Int2R(1)))
      n_treatment_clusters == R_round(RMul(n_clusters, treatment_prop))
      n_control_clusters == RSub(n_clusters, n_treatment_clusters)
      n_treatment == RMul(n_treatment_clusters, e.patients_per_cluster)
      n_control == RMul(n_control_clusters, e.patients_per_cluster)
      design_effect ==
        RMul(RAdd(Int2R(1),
                  RMul(RSub(e.patients_per_cluster, Int2R(1)), e.icc_retention)),
             RAdd(Int2R(1), RMul(e.cluster_size_cv, e.cluster_size_cv)))
      p0 == e.control_attrition
      base_se ==
        SqrtR(RMul(RMul(p0, RSub(Int2R(1), p0)),
                   RAdd(RDiv(Int2R(1), n_treatment), RDiv(Int2R(1), n_control))))
      clustered_se == VMulV(base_se, SqrtR(design_effect))
      adjusted_se == VMulV(clustered_se, SqrtR(RSub(Int2R(1), e.r2_retention)))
      survival_se == VDivV(adjusted_se, SqrtR(e.survival_efficiency))
      mde == VMulR(survival_se, RAdd(e.z_alpha, e.z_beta))
  IN  [mde_pp |-> VMulR(mde, Int2R(100)),
       control_rate |-> RMul(p0, Int2R(100)),
       treatment_rate |-> VMulR(VAddR(VNeg(mde), p0), Int2R(100))]

\* hamd_result <- calc_hamd_mde(total_n) and retention_result <-
\* calc_retention_mde(total_n), for the script of the current render
hamd_result ==
  calc_hamd_mde(rCodeForExecution(settings), rCodeForExecution(settings).total_n)

retention_result ==
  calc_retention_mde(rCodeForExecution(settings), rCodeForExecution(settings).total_n)

\* v and w differ by at most one hundredth of w
Within1Percent(v, w) ==
  /\ VLe(VMulR(w, Pct(99)), v)
  /\ VLe(v, VMulR(w, Pct(101)))

\* C11: in every render the R script computes the HAM-D and retention MDE of
\* the calculator for the current design (to within 1%, which allows for the
\* three-decimal rounding of the z tables)
C11_RCodeReproduces ==
  mounted =>
    /\ Within1Percent(hamd_result.mde, currentHamd.mde)
    /\ Within1Percent(retention_result.mde_pp, currentRetention.mde)

\* the default design: the script takes z_alpha = qnorm(0.975) = 1.96 where the
\* calculator's table gives 2.24, and its HAM-D MDE is below the calculator's
C11_OneSidedQuantile ==
  /\ mounted
  /\ settings.alpha = Mil(25)
  /\ settings.measurementModel = "sum"
  /\ rCodeForExecution(settings).z_alpha = Pct(196)
  /\ memo.zAlpha.value = Pct(224)
  /\ VLt(hamd_result.mde, currentHamd.mde)

-----------------------------------------------------------------------------
(* Claims about the cluster allocation under SpecHamd *)

\* the nearest integer to a finite rational, halves upwards
Nearest(x) == [n |-> (2 * x.n + x.d) \div (2 * x.d), d |-> 1]

\* C12: the three calculators allocate nClusters = round(totalN /
\* patientsPerCluster) and nTreatmentClusters = round(nClusters * ratio /
\* (ratio + 1)); the control clusters are the rest, and nCompleters =
\* round(nClusters * patientsPerCluster * (1 - controlAttrition)); 10 per
\* cluster, 3:1, 30% attrition and totalN = 1000 give 100, 75, 25 and 700
C12_ClusterAllocation ==
  call.fn = "calcHamdMDE" =>
    LET s == settings
        r == CallResult
        nClusters == Nearest(RDiv(Int2R(call.totalN), s.patientsPerCluster))
        nTreatmentClusters ==
          Nearest(RDiv(RMul(nClusters, s.treatmentRatio),
                       RAdd(s.treatmentRatio, Int2R(1))))
    IN  /\ r.nClusters = nClusters
        /\ r.nTreatmentClusters = nTreatmentClusters
        /\ r.nControlClusters = RSub(nClusters, nTreatmentClusters)
        /\ RAdd(r.nTreatmentClusters, r.nControlClusters) = r.nClusters
        /\ r.nCompleters =
             Nearest(RMul(RMul(nClusters, s.patientsPerCluster),
                          RSub(Int2R(1), s.controlAttrition)))
        /\ ResultOf("calcRetentionMDE", call.totalN).nClusters = nClusters
        /\ ResultOf("calcIccValidation", call.totalN).nTreatmentClusters
             = nTreatmentClusters
        /\ (/\ s.patientsPerCluster = Int2R(10)
            /\ s.treatmentRatio = Int2R(3)
            /\ s.controlAttrition = Pct(30)
            /\ call.totalN = 1000)
           => /\ r.nClusters = Int2R(100)
              /\ r.nTreatmentClusters = Int2R(75)
              /\ r.nControlClusters = Int2R(25)
              /\ r.nCompleters = Int2R(700)

\* the call of the worked example: 1000 patients, 10 per cluster, 3:1, 30%
C12_Example ==
  /\ call.fn = "calcHamdMDE"
  /\ call.totalN = 1000
  /\ settings.patientsPerCluster = Int2R(10)
  /\ settings.treatmentRatio = Int2R(3)
  /\ settings.controlAttrition = Pct(30)
  /\ CallResult.nCompleters = Int2R(700)

-----------------------------------------------------------------------------
(* Claims about the measurement models under Spec *)

\* C13: with the reliability upgrade selected (rasch or mfrm) and the Rasch
\* reliability above the sum-score reliability, the mde is strictly below the
\* baseline mde and the variance reduction is positive, for the current design
\* (totalN = nClinicians * patientsPerCluster) and for small and large totalN,
\* whenever totalN gives a cluster in each arm
C13_UpgradeLowersMde ==
  (/\ mounted
   /\ useRaschOf(settings.measurementModel)
   /\ RLt(settings.sumScoreReliability, settings.raschReliability))
    => \A hamd \in {currentHamd} \cup
                    {calcHamdMDE(closure, Int2R(totalN)) : totalN \in {20, 30, 1300}} :
         (/\ RLe(Int2R(1), hamd.nTreatmentClusters)
          /\ RLe(Int2R(1), hamd.nControlClusters))
           => /\ VLt(hamd.mde, hamd.baselineMDE)
              /\ RLt(Int2R(0), hamd.varianceReduction)

\* a render with model mfrm, reliabilities 0.86 and 0.91, a cluster in each arm
\* and a finite mde below the baseline
C13_Witness ==
  /\ mounted
  /\ settings.measurementModel = "mfrm"
  /\ settings.sumScoreReliability = Pct(86)
  /\ settings.raschReliability = Pct(91)
  /\ RLe(Int2R(1), currentHamd.nTreatmentClusters)
  /\ RLe(Int2R(1), currentHamd.nControlClusters)
  /\ VIsFinite(currentHamd.mde)
  /\ VLt(currentHamd.mde, currentHamd.baselineMDE)

\* C14: for the reliabilities and rater proportion of every render, the
\* multiplier of model mfrm is that of model rasch times (1 - raterVarianceProp),
\* the multiplier of model rasch is 1 - (raschReliability - sumScoreReliability),
\* that of model sum is 1, mfrm's is at most rasch's, the memo holds the
\* multiplier of the selected model, and the rater adjustment is never active
\* without the reliability adjustment
C14_ModelChain ==
  mounted =>
    LET s == settings
        multiplier(model) ==
          measurementVarianceMultiplierOf(useRaschOf(model), useMFRMOf(model),
            s.sumScoreReliability, s.raschReliability, s.raterVarianceProp)
    IN  /\ multiplier("sum") = Int2R(1)
        /\ multiplier("rasch") =
             RSub(Int2R(1), RSub(s.raschReliability, s.sumScoreReliability))
        /\ multiplier("mfrm") =
             RMul(multiplier("rasch"), RSub(Int2R(1), s.raterVarianceProp))
        /\ RLe(multiplier("mfrm"), multiplier("rasch"))
        /\ memo.measurementVarianceMultiplier.value = multiplier(s.measurementModel)
        /\ useMFRMOf(s.measurementModel) => useRaschOf(s.measurementModel)

\* a render with model mfrm and the default reliabilities and rater proportion:
\* the multiplier is 0.95 * 0.93
C14_Witness ==
  /\ mounted
  /\ settings.measurementModel = "mfrm"
  /\ settings.raterVarianceProp = Pct(7)
  /\ memo.measurementVarianceMultiplier.value = RMul(Pct(95), Pct(93))

-----------------------------------------------------------------------------
(* calcRetentionMDE called directly, for designs that differ in the        *)
(* survival efficiency                                                     *)

RetentionTotalNs == {1, 5, 20, 400, 1000, 1300}

\* values of the survival-efficiency slider (1 to 5 in steps of 0.5)
SurvivalEfficiencies == {Int2R(1), Q(3, 2), Int2R(2), Int2R(4), Int2R(5)}

RetentionParameters ==
  {WithSettings(o) :
     o \in [patientsPerCluster : {Int2R(5), Int2R(10)},
            treatmentRatio : {Int2R(1), Int2R(3)},
            controlAttrition : {Pct(20), Pct(30)},
            r2Retention : {Int2R(0), Pct(5)},
            survivalEfficiency : SurvivalEfficiencies]}

\* calcRetentionMDE(totalN) of src/unnamed/part_000
CallRetentionMDE ==
  /\ \E totalN \in RetentionTotalNs :
       call' = [fn |-> "calcRetentionMDE", totalN |-> totalN]
  /\ UNCHANGED <<settings, memo, storage, mounted, initial, webRVars>>

\* calcRetentionMDE(totalN) of src/src/App.js
App_CallRetentionMDE ==
  /\ \E totalN \in RetentionTotalNs :
       call' = [fn |-> "App_calcRetentionMDE", totalN |-> totalN]
  /\ UNCHANGED <<settings, memo, storage, mounted, initial, webRVars>>

InitRetention == InitCall(RetentionParameters)

NextRetention == CallRetentionMDE \/ App_CallRetentionMDE

SpecRetention == InitRetention /\ [][NextRetention]_vars

\* what the call would return with survivalEfficiency e and every other
\* parameter as it is
RetentionWith(e) ==
  IF call.fn = "calcRetentionMDE"
  THEN calcRetentionMDE([FreshClosure(settings) EXCEPT !.survivalEfficiency = e],
                        Int2R(call.totalN))
  ELSE App_calcRetentionMDE(
         [App_FreshClosure(settings) EXCEPT !.survivalEfficiency = e],
         Int2R(call.totalN))

\* v = w as numbers
SameNumber(v, w) == VLe(v, w) /\ VLe(w, v)

\* C15: with a higher survivalEfficiency and everything else equal the
\* retention mde is not higher, and binaryMDE, controlRate and nClusters are
\* the same
C15_MdeNonIncreasingInEfficiency ==
  call.fn \in {"calcRetentionMDE", "App_calcRetentionMDE"} =>
    \A e \in SurvivalEfficiencies :
      RLt(settings.survivalEfficiency, e) =>
        /\ VLe(RetentionWith(e).mde, CallResult.mde)
        /\ RetentionWith(e).binaryMDE = CallResult.binaryMDE
        /\ RetentionWith(e).controlRate = CallResult.controlRate
        /\ RetentionWith(e).nClusters = CallResult.nClusters

\* a call with survivalEfficiency 1.5 and a finite mde that a survivalEfficiency
\* of 4 lowers strictly
C15_Witness ==
  /\ call.fn = "calcRetentionMDE"
  /\ settings.survivalEfficiency = Q(3, 2)
  /\ VIsFinite(CallResult.mde)
  /\ VLt(RetentionWith(Int2R(4)).mde, CallResult.mde)

\* the square of a value that is a rational or a pure root, as a product
Squared(v) == IF v.sg = 0 THEN <<v.a, v.a>> ELSE v.r

\* p = q as numbers
SameProduct(p, q) ==
  PClass(p) # "nan" /\ PClass(q) # "nan" /\ ~PLt(p, q) /\ ~PLt(q, p)

\* C16: the binaryMDE a call of calcRetentionMDE returns is the mde it returns
\* with survivalEfficiency 1 and all else equal, and mde^2 * survivalEfficiency
\* = binaryMDE^2
C16_BinaryMdeIsEfficiencyOne ==
  call.fn \in {"calcRetentionMDE", "App_calcRetentionMDE"} =>
    /\ SameNumber(CallResult.binaryMDE, RetentionWith(Int2R(1)).mde)
    /\ SameProduct(PMul(Squared(CallResult.mde), settings.survivalEfficiency),
                   Squared(CallResult.binaryMDE))

\* a call with survivalEfficiency 4 whose finite mde is half its binaryMDE
C16_Witness ==
  /\ call.fn = "calcRetentionMDE"
  /\ settings.survivalEfficiency = Int2R(4)
  /\ VIsFinite(CallResult.mde)
  /\ SameNumber(VMulR(CallResult.mde, Int2R(2)), CallResult.binaryMDE)

-----------------------------------------------------------------------------
(* The component of src/unnamed/part_000 across page loads: what one load  *)
(* saves the next one restores                                             *)

\* localStorage.getItem throws (storage access denied)
Unreadable == [kind |-> "unreadable"]

\* what localStorage may hold at the first load: nothing, text that does not
\* parse, no access, an empty object, objects with some of the settings
ReloadItems ==
  {NoItem, Corrupt, Unreadable, Saved(<< >>),
   Saved([treatmentRatio |-> Int2R(4)]),
   Saved([nClinicians |-> Int2R(0), iccHamd |-> Pct(10), measurementModel |-> "rasch"])}

\* the page is loaded again: the component starts from nothing but localStorage
Reload ==
  /\ mounted
  /\ mounted' = FALSE
  /\ settings' = defaults
  /\ memo' = NoMemo
  /\ initial' = defaults
  /\ showRCode' = FALSE
  /\ webRStatus' = "idle"
  /\ webROutput' = Text("")
  /\ webRInstance' = "null"
  /\ pending' = << >>
  /\ UNCHANGED <<storage, call>>

InitReload ==
  /\ storage \in ReloadItems
  /\ settings = defaults
  /\ memo = NoMemo
  /\ mounted = FALSE
  /\ initial = defaults
  /\ call = NoCall
  /\ WebRIdle

NextReload ==
  \/ Mount
  \/ setPower
  \/ setNClinicians
  \/ setMeasurementModel
  \/ Reload

SpecReload == InitReload /\ [][NextReload]_vars

\* C17: at every load, loadSettings returns for each key of defaults the saved
\* value when the stored object has the key and the default otherwise, and
\* exactly defaults when nothing is stored or reading or parsing fails
C17_LoadSettingsMerges ==
  [][(~mounted /\ mounted') =>
       IF storage.kind = "json"
       THEN \A k \in DOMAIN defaults :
              initial'[k] = IF k \in DOMAIN storage.obj THEN storage.obj[k]
                            ELSE defaults[k]
       ELSE initial' = defaults]_vars

\* a first load that restored the one setting stored and took the defaults for
\* the rest
C17_Witness ==
  /\ mounted
  /\ initial.treatmentRatio = Int2R(4)
  /\ \A k \in DOMAIN defaults \ {"treatmentRatio"} : initial[k] = defaults[k]

\* C18: after the mount and after every setter the object stored under
\* STORAGE_KEY holds the current value of all twenty settings, and loading it
\* initialises every state variable to that value
C18_SaveThenLoad ==
  mounted =>
    /\ storage.kind = "json"
    /\ DOMAIN storage.obj = DOMAIN defaults
    /\ \A k \in DOMAIN defaults : storage.obj[k] = settings[k]
    /\ InitialState(loadSettings(storage)) = settings

\* a load that restored a power and a measurement model set before the page was
\* loaded again
C18_Witness ==
  /\ mounted
  /\ initial.power = Pct(90)
  /\ initial.measurementModel = "mfrm"
  /\ settings = initial

-----------------------------------------------------------------------------
(* Claims about the values calcIccValidation and calcHamdMDE return, under *)
(* SpecIcc                                                                 *)

\* C19: the counts a call returns are the exact quantities: nTreatmentPatients
\* = nTreatmentClusters * patientsPerCluster * (1 - controlAttrition),
\* nObservations = nTreatmentPatients * nFollowups, nEffective = nObservations
\* / designEffect, and calcHamdMDE's nCompleters is the sum of the completers
\* of the two arms, whether or not they are integers
C19_ExactIntermediates ==
  (call.fn = "calcIccValidation" /\ call.totalN > 0) =>
    LET s == settings
        r == CallResult
        l == calcIccValidationLocals(FreshClosure(s), Int2R(call.totalN))
        hamd == ResultOf("calcHamdMDE", call.totalN)
        perCluster == RMul(s.patientsPerCluster, RSub(Int2R(1), s.controlAttrition))
    IN  /\ r.nTreatmentPatients = RMul(r.nTreatmentClusters, perCluster)
        /\ r.nObservations = RMul(RMul(r.nTreatmentClusters, perCluster), s.nFollowups)
        /\ r.nEffective = RDiv(l.nObservations, l.designEffect)
        /\ hamd.nCompleters =
             RAdd(RMul(hamd.nTreatmentClusters, perCluster),
                  RMul(hamd.nControlClusters, perCluster))

\* the default design at totalN = 1000: nEffective is 2100 / 1.81 and the call
\* returns 1160
C19_RoundedEffective ==
  /\ call.fn = "calcIccValidation"
  /\ call.totalN = 1000
  /\ settings.patientsPerCluster = Int2R(10)
  /\ settings.controlAttrition = Pct(30)
  /\ settings.nFollowups = Int2R(4)
  /\ settings.treatmentRatio = Int2R(3)
  /\ CallNEffective = Q(210000, 181)
  /\ CallResult.nEffective = Int2R(1160)

-----------------------------------------------------------------------------
(* The z tables: the component opened with an alpha and a power that a     *)
(* saved object supplies, among them values that are in neither table      *)

ZItems ==
  {Saved(o) :
     o \in [alpha : {Pct(5), Mil(25), Pct(1), Pct(10), Pct(2), Int2R(0)},
            power : {Pct(70), Pct(75), Pct(80), Pct(85), Pct(90), Pct(95), Pct(60)}]}

InitZ ==
  /\ storage \in ZItems
  /\ settings = defaults
  /\ memo = NoMemo
  /\ mounted = FALSE
  /\ initial = defaults
  /\ call = NoCall
  /\ WebRIdle

NextZ == Mount \/ setAlpha \/ setPower

SpecZ == InitZ /\ [][NextZ]_vars

\* C20: zAlpha is 1.96, 2.24, 2.58 for alpha 0.05, 0.025, 0.01 and 2.24 for any
\* other alpha; zBeta is 0.524, 0.674, 0.842, 1.036, 1.282 for power 0.70,
\* 0.75, 0.80, 0.85, 0.90 and 0.842 for any other power
C20_ZTables ==
  mounted =>
    /\ memo.zAlpha.value =
         CASE settings.alpha = Q(5, 100) -> Q(196, 100)
           [] settings.alpha = Q(25, 1000) -> Q(224, 100)
           [] settings.alpha = Q(1, 100) -> Q(258, 100)
           [] OTHER -> Q(224, 100)
    /\ memo.zBeta.value =
         CASE settings.power = Q(70, 100) -> Q(524, 1000)
           [] settings.power = Q(75, 100) -> Q(674, 1000)
           [] settings.power = Q(80, 100) -> Q(842, 1000)
           [] settings.power = Q(85, 100) -> Q(1036, 1000)
           [] settings.power = Q(90, 100) -> Q(1282, 1000)
           [] OTHER -> Q(842, 1000)
    /\ App_Render(App_NoMemo, settings).zAlpha.value = memo.zAlpha.value
    /\ App_Render(App_NoMemo, settings).zBeta.value = memo.zBeta.value

\* a render with an alpha and a power outside the tables, which took the
\* fallback values
C20_Fallback ==
  /\ mounted
  /\ settings.alpha = Pct(10)
  /\ settings.power = Pct(95)
  /\ memo.zAlpha.value = Pct(224)
  /\ memo.zBeta.value = Mil(842)

-----------------------------------------------------------------------------
(* The three calculators of src/unnamed/part_000 called in any order for   *)
(* one parameter set                                                       *)

PureParameters ==
  {WithSettings(o) :
     o \in [patientsPerCluster : {Int2R(5), Int2R(10)},
            treatmentRatio : {Int2R(1), Int2R(3)},
            measurementModel : {"sum", "mfrm"},
            survivalEfficiency : {Int2R(1), Int2R(4)}]}

InitPure == InitCall(PureParameters)

NextPure == CallHamdMDE \/ CallRetentionMDE \/ CallIccValidation

SpecPure == InitPure /\ [][NextPure]_vars

-----------------------------------------------------------------------------
(* The baseline measurement model *)

\* values the three measurement settings can hold: slider positions, and the
\* values outside the sliders that a stored object can restore
ReliabilityValues == {Int2R(0), Pct(70), Pct(86), Pct(91), Pct(99), Int2R(1)}

RaterVarianceValues == {Int2R(0), Pct(7), Pct(15), Pct(20)}

\* the settings with the three measurement sliders moved
WithMeasurement(s, a, b, r) ==
  [s EXCEPT !.sumScoreReliability = a, !.raschReliability = b, !.raterVarianceProp = r]

\* v and w are the same value (NaN where the other is NaN)
SameValue(v, w) == (VIsNaN(v) /\ VIsNaN(w)) \/ SameNumber(v, w)

\* C22: under the model 'sum' the multiplier is 1 for every value of the
\* three measurement sliders, calcHamdMDE returns varianceReduction 0 and an
\* mde equal to baselineMDE, and the three calculators return what they
\* return with the sliders anywhere else
C22_BaselineModel ==
  /\ \A a, b \in ReliabilityValues, r \in RaterVarianceValues :
       measurementVarianceMultiplierOf(useRaschOf("sum"), useMFRMOf("sum"), a, b, r)
         = Int2R(1)
  /\ (mounted /\ settings.measurementModel = "sum") =>
       /\ memo.measurementVarianceMultiplier.value = Int2R(1)
       /\ \A totalN \in {Int2R(5), currentN, Int2R(1300)} :
            LET hamd == calcHamdMDE(closure, totalN)
            IN  /\ hamd.varianceReduction = Int2R(0)
                /\ SameValue(hamd.mde, hamd.baselineMDE)
                /\ \A a \in {Pct(70), Int2R(1)}, r \in {Pct(20)} :
                     LET moved == FreshClosure(WithMeasurement(settings, a, Pct(99), r))
                     IN  /\ calcHamdMDE(moved, totalN) = hamd
                         /\ calcRetentionMDE(moved, totalN) = calcRetentionMDE(closure, totalN)
                         /\ calcIccValidation(moved, totalN) = calcIccValidation(closure, totalN)

\* the model is 'sum', a measurement slider has been moved and the mde at the
\* current design is finite
C22_Witness ==
  /\ mounted
  /\ settings.measurementModel = "sum"
  /\ settings.sumScoreReliability = Pct(92)
  /\ settings.raterVarianceProp = Pct(15)
  /\ VIsFinite(currentHamd.mde)
  /\ currentHamd.varianceReduction = Int2R(0)

-----------------------------------------------------------------------------
(* The threshold search of src/src/App.js called directly                  *)

SearchParameters ==
  {WithSettings(o) :
     o \in [patientsPerCluster : {Int2R(10), Int2R(15)},
            treatmentRatio : {Int2R(1), Int2R(3), Int2R(4)},
            iccHamd : {Pct(4), Pct(10)},
            power : {Pct(80), Pct(90)}]}

\* the targets of a search, per calculator: HAM-D points and percentage points
SearchTargets ==
  [calcHamdMDE |-> {Q(3, 2), Q(7, 4), Int2R(2), Q(9, 4), Int2R(3)},
   calcRetentionMDE |-> {Int2R(4), Int2R(5), Int2R(6), Int2R(7), Int2R(10)}]

\* findNForMDE(targetMDE, calcFunc, "mde")
CallFindNForMDE ==
  /\ \E calcFunc \in DOMAIN SearchTargets :
       \E targetMDE \in SearchTargets[calcFunc] :
         call' = [fn |-> "findNForMDE", calcFunc |-> calcFunc, targetMDE |-> targetMDE]
  /\ UNCHANGED <<settings, memo, storage, mounted, initial, webRVars>>

InitSearch == InitCall(SearchParameters)

NextSearch == CallFindNForMDE

SpecSearch == InitSearch /\ [][NextSearch]_vars

\* what the search of the call returned
SearchResult ==
  findNForMDE(App_FreshClosure(settings), call.targetMDE, call.calcFunc, "mde")

\* the grid values at which the calculator of the call meets its target
SearchHits ==
  {n \in App_Grid :
     VLe(App_calcFunc(call.calcFunc, App_FreshClosure(settings), Int2R(n)).mde,
         VRat(call.targetMDE))}

\* a bisection over the grid for the least N that meets the target: lo and hi
\* count grid steps from 400, and the value at hi meets the target
RECURSIVE BisectLoop(_, _, _)
BisectLoop(hits, lo, hi) ==
  IF lo = hi THEN JsNumber(Int2R(400 + 10 * lo))
  ELSE LET mid == (lo + hi) \div 2
       IN  IF 400 + 10 * mid \in hits THEN BisectLoop(hits, lo, mid)
           ELSE BisectLoop(hits, mid + 1, hi)

Bisect(hits) == IF 1300 \in hits THEN BisectLoop(hits, 0, 90) ELSE JsString(">1300")

\* C23: for fixed parameters the grid values whose mde meets the target are
\* upward closed, for calcHamdMDE and for calcRetentionMDE, and a bisection
\* over the grid returns what findNForMDE returns
C23_BisectionAgrees ==
  call.fn = "findNForMDE" =>
    LET hits == SearchHits
        bisected == Bisect(hits)
        scanned == SearchResult
    IN  /\ \A n \in hits : \A m \in App_Grid : m > n => m \in hits
        /\ bisected.kind = scanned.kind
        /\ scanned.kind = "number" => bisected.value = scanned.value

\* a search of the retention calculator returned an N inside the grid
C23_Witness ==
  /\ call.fn = "findNForMDE"
  /\ call.calcFunc = "calcRetentionMDE"
  /\ SearchResult.kind = "number"
  /\ RLt(Int2R(400), SearchResult.value)
  /\ RLt(SearchResult.value, Int2R(1300))

-----------------------------------------------------------------------------
(* The design effects *)

\* the parameters are in the domain the design effects are stated for
InDeclaredDomain(s) ==
  /\ RLe(Int2R(1), s.patientsPerCluster)
  /\ RLe(Int2R(0), s.controlAttrition) /\ RLt(s.controlAttrition, Int2R(1))
  /\ \A k \in {"iccHamd", "iccRetention", "iccClusterCorr"} :
       RLt(Int2R(0), s[k]) /\ RLt(s[k], Int2R(1))
  /\ RLe(Int2R(0), s.clusterSizeCV)
  /\ RLe(Int2R(1), s.nFollowups)

\* C24: for parameters in the declared domain and a totalN of the sweep the
\* design effect of calcHamdMDE, of calcRetentionMDE and of calcIccValidation
\* is at least 1
C24_DesignEffectsInflate ==
  (call.fn = "calcIccValidation" /\ call.totalN >= 400 /\ InDeclaredDomain(settings)) =>
    /\ RLe(Int2R(1), calcHamdMDE_designEffect(FreshClosure(settings)))
    /\ RLe(Int2R(1), calcRetentionMDE_designEffect(FreshClosure(settings)))
    /\ RLe(Int2R(1),
           calcIccValidationLocals(FreshClosure(settings), Int2R(call.totalN)).designEffect)

\* one patient per cluster with 30% attrition and one follow-up: the cluster
\* size after attrition is 0.7, and the severity and ICC design effects are
\* below 1 while the retention design effect is 1
C24_Deflation ==
  /\ call.fn = "calcIccValidation"
  /\ call.totalN = 1000
  /\ InDeclaredDomain(settings)
  /\ settings.patientsPerCluster = Int2R(1)
  /\ settings.controlAttrition = Pct(30)
  /\ calcHamdMDE_designEffect(FreshClosure(settings)) = Q(247, 250)
  /\ calcRetentionMDE_designEffect(FreshClosure(settings)) = Int2R(1)
  /\ calcIccValidationLocals(FreshClosure(settings), Int2R(1000)).designEffect
       = Q(991, 1000)

-----------------------------------------------------------------------------
(* The allocation of clusters in the three calculators *)

-----------------------------------------------------------------------------
(* The R code section of src/unnamed/part_000: the button and runRCode.    *)
(* An invocation of runRCode runs to its next await in one step; the code  *)
(* after an await runs when the awaited promise settles, and React commits *)
(* the setter calls of that step together.                                 *)

\* at most this many invocations of runRCode wait at once
MaxPending == 2

\* the message of the error a rejected promise carries
ErrorMessages ==
  [import |-> "Failed to fetch dynamically imported module",
   init |-> "WebR failed to start",
   evalRString |-> "Error in R"]

\* a button that is disabled only while R code runs
runDisabled_WhileRunning == webRStatus = "running"

\* disabled={webRStatus === "loading" || webRStatus === "running"}
runDisabled == webRStatus = "loading" \/ webRStatus = "running"

\* a run that downloads the runtime every time
webRMissing_Always(webR) == TRUE

\* if (!webR)
webRMissing(webR) == webR = "null"

\* a catch block that shows the message and leaves the status as it is
Caught_OutputOnly(message) ==
  [webRStatus |-> webRStatus, webROutput |-> Text("Error: " \o message)]

\* catch (error) { setWebRStatus("error"); setWebROutput(`Error: ${error.message}`) }
Caught(message) ==
  [webRStatus |-> "error", webROutput |-> Text("Error: " \o message)]

\* the sequence without its i-th element
Without(seq, i) == SubSeq(seq, 1, i - 1) \o SubSeq(seq, i + 1, Len(seq))

\* onClick={() => setShowRCode(!showRCode)}
setShowRCode ==
  /\ mounted
  /\ showRCode' = ~showRCode
  /\ UNCHANGED <<settings, memo, storage, mounted, initial, call>>
  /\ UNCHANGED <<webRStatus, webROutput, webRInstance, pending>>

\* a click on the run button: runRCode(rCodeForExecution) up to its first await
runRCode ==
  /\ mounted /\ showRCode /\ ~runDisabled
  /\ Len(pending) < MaxPending
  /\ IF webRStatus = "running"
     THEN UNCHANGED <<webRStatus, webROutput, pending>>
     ELSE IF webRMissing(webRInstance)
     THEN /\ webRStatus' = "loading"
          /\ webROutput' = Text("Downloading R runtime (~25MB, first time only)...")
          /\ pending' = Append(pending, [at |-> "import", webR |-> webRInstance,
                                         rCode |-> rCodeForExecution(settings)])
     ELSE /\ webRStatus' = "running"
          /\ webROutput' = Text("Running R code...")
          /\ pending' = Append(pending, [at |-> "evalRString", webR |-> webRInstance,
                                         rCode |-> rCodeForExecution(settings)])
  /\ UNCHANGED <<settings, memo, storage, mounted, initial, call>>
  /\ UNCHANGED <<showRCode, webRInstance>>

\* the import resolves: webR = new WebR(), and webR.init() is awaited
importResolves ==
  \E i \in 1..Len(pending) :
    /\ pending[i].at = "import"
    /\ pending' = [pending EXCEPT ![i].at = "init", ![i].webR = "WebR"]
    /\ UNCHANGED <<settings, memo, storage, mounted, initial, call>>
    /\ UNCHANGED <<showRCode, webRStatus, webROutput, webRInstance>>

\* the import rejects, or new WebR() throws: the catch block
importRejects ==
  \E i \in 1..Len(pending) :
    /\ pending[i].at = "import"
    /\ webRStatus' = Caught(ErrorMessages.import).webRStatus
    /\ webROutput' = Caught(ErrorMessages.import).webROutput
    /\ pending' = Without(pending, i)
    /\ UNCHANGED <<settings, memo, storage, mounted, initial, call>>
    /\ UNCHANGED <<showRCode, webRInstance>>

\* webR.init() resolves: setWebRInstance(webR), setWebRStatus("ready"), then
\* setWebRStatus("running"), setWebROutput("Running R code...") and the
\* evaluation is awaited
initResolves ==
  \E i \in 1..Len(pending) :
    /\ pending[i].at = "init"
    /\ webRInstance' = pending[i].webR
    /\ webRStatus' = "running"
    /\ webROutput' = Text("Running R code...")
    /\ pending' = [pending EXCEPT ![i].at = "evalRString"]
    /\ UNCHANGED <<settings, memo, storage, mounted, initial, call>>
    /\ UNCHANGED showRCode

\* webR.init() rejects: the catch block
initRejects ==
  \E i \in 1..Len(pending) :
    /\ pending[i].at = "init"
    /\ webRStatus' = Caught(ErrorMessages.init).webRStatus
    /\ webROutput' = Caught(ErrorMessages.init).webROutput
    /\ pending' = Without(pending, i)
    /\ UNCHANGED <<settings, memo, storage, mounted, initial, call>>
    /\ UNCHANGED <<showRCode, webRInstance>>

\* webR.evalRString resolves: setWebROutput(output), setWebRStatus("ready")
evalResolves ==
  \E i \in 1..Len(pending) :
    /\ pending[i].at = "evalRString"
    /\ webROutput' = [text |-> "capture.output", rCode |-> <<pending[i].rCode>>]
    /\ webRStatus' = "ready"
    /\ pending' = Without(pending, i)
    /\ UNCHANGED <<settings, memo, storage, mounted, initial, call>>
    /\ UNCHANGED <<showRCode, webRInstance>>

\* webR.evalRString rejects, or result.replace throws: the catch block
evalRejects ==
  \E i \in 1..Len(pending) :
    /\ pending[i].at = "evalRString"
    /\ webRStatus' = Caught(ErrorMessages.evalRString).webRStatus
    /\ webROutput' = Caught(ErrorMessages.evalRString).webROutput
    /\ pending' = Without(pending, i)
    /\ UNCHANGED <<settings, memo, storage, mounted, initial, call>>
    /\ UNCHANGED <<showRCode, webRInstance>>

NextWebR ==
  \/ Mount
  \/ setPower
  \/ setAlpha
  \/ setShowRCode
  \/ runRCode
  \/ importResolves
  \/ importRejects
  \/ initResolves
  \/ initRejects
  \/ evalResolves
  \/ evalRejects

SpecWebR == Init /\ [][NextWebR]_vars

\* every awaited promise settles
SpecWebRSettling ==
  /\ SpecWebR
  /\ WF_vars(importResolves \/ importRejects)
  /\ WF_vars(initResolves \/ initRejects)
  /\ WF_vars(evalResolves \/ evalRejects)

\* C26: at most one invocation of runRCode waits at an await, and one waits
\* exactly while the status is 'loading' or 'running', when the button is
\* disabled; so no import, init or evaluation starts beside another
C26_OneRunInFlight ==
  /\ Len(pending) <= 1
  /\ pending # << >> <=> webRStatus \in {"loading", "running"}
  /\ pending # << >> => runDisabled

\* the section is open and the disabled button shows "Downloading R..." while
\* webR.init() is awaited
C26_Witness ==
  /\ showRCode
  /\ webRStatus = "loading"
  /\ runDisabled
  /\ Len(pending) = 1
  /\ pending[1].at = "init"

\* C27: when every awaited promise settles, a run that has started leads to
\* a state with no run waiting and the status 'ready' or 'error'; the status
\* is 'loading' or 'running' only while a run waits; the status 'error'
\* comes with the error message as output, no run waiting and the button
\* enabled
C27_RunsEnd ==
  /\ [](webRStatus \in {"loading", "running"} => pending # << >>)
  /\ [](webRStatus = "error" =>
          /\ webROutput \in {Text("Error: " \o ErrorMessages[at]) : at \in DOMAIN ErrorMessages}
          /\ pending = << >>
          /\ ~runDisabled)
  /\ [][webRStatus' = "error" /\ webRStatus # "error" =>
          \E i \in 1..Len(pending) :
            webROutput' = Text("Error: " \o ErrorMessages[pending[i].at])]_vars
  /\ (pending # << >>) ~> (pending = << >> /\ webRStatus \in {"ready", "error"})

\* a run has ended in 'ready' with the output of the code for a power of
\* 0.90, with the section open and the button enabled
C27_Witness ==
  /\ showRCode
  /\ webRStatus = "ready"
  /\ ~runDisabled
  /\ pending = << >>
  /\ webROutput.text = "capture.output"
  /\ webROutput.rCode[1].power = Pct(90)

\* C28: the status is 'loading', and a run waits for the import or for
\* init, only while webRInstance is null; an instance once stored stays; a run
\* started with an instance goes to 'running' and waits for the evaluation;
\* a rejected init leaves webRInstance null
C28_RuntimeLoadedOnce ==
  /\ [](webRStatus = "loading" => webRInstance = "null")
  /\ [](\A i \in 1..Len(pending) :
          pending[i].at \in {"import", "init"} => webRInstance = "null")
  /\ [][/\ webRInstance # "null" => webRInstance' = webRInstance
        /\ (webRInstance # "null" /\ Len(pending') > Len(pending)) =>
             /\ webRStatus' = "running"
             /\ pending'[Len(pending')].at = "evalRString"
             /\ pending'[Len(pending')].webR = webRInstance
        /\ (webRStatus' = "error" /\ webRStatus = "loading") =>
             webRInstance' = "null"]_vars

\* an evaluation failed after a successful init: the status is 'error' and
\* the instance is kept
C28_Witness ==
  /\ webRStatus = "error"
  /\ webROutput = Text("Error: " \o ErrorMessages.evalRString)
  /\ webRInstance = "WebR"
  /\ pending = << >>

-----------------------------------------------------------------------------
(* The designs the selects of src/unnamed/part_000 offer, and every N the  *)
(* page evaluates for one of them                                          *)

DesignParameters ==
  {WithSettings(o) :
     o \in [patientsPerCluster : {Int2R(5), Int2R(8), Int2R(10), Int2R(12), Int2R(15)},
            treatmentRatio : {Int2R(1), Int2R(2), Int2R(3), Int2R(4)},
            nClinicians : {Int2R(60), Int2R(80), Int2R(100), Int2R(120), Int2R(140)},
            controlAttrition : {Pct(20), Pct(25), Pct(30), Pct(35), Pct(40)}]}

\* the N of the curve points; the rows of the table are among them
SweepNs == {400 + 50 * i : i \in 0..18}

TableNs == {400, 500, 600, 700, 800, 900, 1000, 1100, 1200, 1300}

\* const currentHamd = calcHamdMDE(currentN), currentRetention, currentIcc
RenderCurrentDesign ==
  /\ call' = [fn |-> "currentDesign"]
  /\ UNCHANGED <<settings, memo, storage, mounted, initial, webRVars>>

InitDesign == InitCall(DesignParameters)

NextDesign == GeneratePowerData \/ RenderCurrentDesign

SpecDesign == InitDesign /\ [][NextDesign]_vars

\* at totalN both arms have a cluster, the effective sample size is above 1
\* and the values displayed are finite
GuardedAt(totalN) ==
  LET c == FreshClosure(settings)
      hamd == calcHamdMDE(c, totalN)
      retention == calcRetentionMDE(c, totalN)
      icc == calcIccValidationLocals(c, totalN)
  IN  /\ RLe(Int2R(1), hamd.nTreatmentClusters)
      /\ RLe(Int2R(1), hamd.nControlClusters)
      /\ RLt(Int2R(1), icc.nEffective)
      /\ VIsFinite(hamd.mde)
      /\ VIsFinite(retention.mde)
      /\ VIsFinite(icc.ciHalfWidth)

\* C29: for every design the selects offer, at every point of the curve and
\* row of the table and at currentN both arms have at least one cluster and
\* nEffective > 1, the displayed values are finite, and nClusters at currentN
\* is nClinicians
C29_SelectableDesignsAreGuarded ==
  /\ TableNs \subseteq SweepNs
  /\ call.fn = "powerData" => \A n \in SweepNs : GuardedAt(Int2R(n))
  /\ call.fn = "currentDesign" =>
       /\ GuardedAt(currentN)
       /\ nClustersOf(FreshClosure(settings), currentN) = settings.nClinicians

\* the smallest current design: 60 clinicians with 5 patients each at 4:1,
\* 300 patients in 48 and 12 clusters
C29_Witness ==
  /\ call.fn = "currentDesign"
  /\ settings.nClinicians = Int2R(60)
  /\ settings.patientsPerCluster = Int2R(5)
  /\ settings.treatmentRatio = Int2R(4)
  /\ currentN = Int2R(300)
  /\ currentHamd.nTreatmentClusters = Int2R(48)
  /\ currentHamd.nControlClusters = Int2R(12)

-----------------------------------------------------------------------------
(* The calculators of the two versions called with the same parameters *)

\* calcIccValidation of src/src/App.js
App_calcIccValidation(c, totalN) ==
  LET nClusters == Round(RDiv(totalN, c.patientsPerCluster))
      treatmentProportion == RDiv(c.treatmentRatio, RAdd(c.treatmentRatio, Int2R(1)))
      nTreatmentClusters == Round(RMul(nClusters, treatmentProportion))
      nTreatmentPatients ==
        RMul(RMul(nTreatmentClusters, c.patientsPerCluster),
             RSub(Int2R(1), c.controlAttrition))
      nObservations == RMul(nTreatmentPatients, c.nFollowups)
      avgObsPerCluster == RDiv(nObservations, nTreatmentClusters)
      designEffect ==
        RAdd(Int2R(1), RMul(RSub(avgObsPerCluster, Int2R(1)), c.iccClusterCorr))
      nEffective == RDiv(nObservations, designEffect)
      seIcc ==
        VMulV(VRat(RSub(Int2R(1), RMul(c.expectedIcc, c.expectedIcc))),
              SqrtR(RDiv(Int2R(2), RSub(nEffective, Int2R(1)))))
      ciHalfWidth == VMulV(VRat(Pct(196)), seIcc)
      lowerBound == VAddR(VNeg(ciHalfWidth), c.expectedIcc)
      canRuleOutPoor == VGt(lowerBound, VRat(c.targetIcc))
  IN  [nTreatmentPatients |-> Round(nTreatmentPatients),
       nTreatmentClusters |-> nTreatmentClusters,
       nObservations |-> Round(nObservations),
       nEffective |-> Round(nEffective),
       seIcc |-> seIcc,
       ciHalfWidth |-> ciHalfWidth,
       lowerBound |-> lowerBound,
       upperBound |-> VAddR(ciHalfWidth, c.expectedIcc),
       canRuleOutPoor |-> canRuleOutPoor]

VersionParameters ==
  {WithSettings(o) :
     o \in [clusterSizeCV : {Int2R(0), Pct(20), Pct(40), Pct(60)},
            patientsPerCluster : {Int2R(5), Int2R(10)},
            treatmentRatio : {Int2R(1), Int2R(3)},
            measurementModel : {"sum", "mfrm"}]}

InitVersions == InitCall(VersionParameters)

NextVersions ==
  \/ CallHamdMDE
  \/ App_CallHamdMDE
  \/ CallRetentionMDE
  \/ App_CallRetentionMDE
  \/ CallIccValidation

SpecVersions == InitVersions /\ [][NextVersions]_vars

\* C30: for the parameters and the totalN of a call, with clusterSizeCV = 0
\* the three calculators of src/unnamed/part_000 return the records those of
\* src/src/App.js return; with clusterSizeCV > 0 the ICC record is still the
\* same, the cluster counts are the same, and the squares of the severity and
\* retention MDEs are those of App.js times 1 + clusterSizeCV^2, the MDEs
\* themselves larger where they are finite
C30_VersionsAgree ==
  call.fn # "none" =>
    LET totalN == Int2R(call.totalN)
        cv == settings.clusterSizeCV
        inflation == RAdd(Int2R(1), RMul(cv, cv))
        hamd == calcHamdMDE(FreshClosure(settings), totalN)
        retention == calcRetentionMDE(FreshClosure(settings), totalN)
        icc == calcIccValidation(FreshClosure(settings), totalN)
        App_hamd == App_calcHamdMDE(App_FreshClosure(settings), totalN)
        App_retention == App_calcRetentionMDE(App_FreshClosure(settings), totalN)
        App_icc == App_calcIccValidation(App_FreshClosure(settings), totalN)
        scaled(new, old) ==
          IF VIsFinite(old) /\ VSign(old) # 0
          THEN /\ SameProduct(Squared(new), PMul(Squared(old), inflation))
               /\ VLt(old, new)
          ELSE SameValue(new, old)
    IN  /\ icc = App_icc
        /\ cv = Int2R(0) => hamd = App_hamd /\ retention = App_retention
        /\ RLt(Int2R(0), cv) =>
             /\ scaled(hamd.mde, App_hamd.mde)
             /\ scaled(hamd.baselineMDE, App_hamd.baselineMDE)
             /\ scaled(retention.mde, App_retention.mde)
             /\ scaled(retention.binaryMDE, App_retention.binaryMDE)
             /\ hamd.nClusters = App_hamd.nClusters
             /\ hamd.nTreatmentClusters = App_hamd.nTreatmentClusters
             /\ hamd.nCompleters = App_hamd.nCompleters
             /\ hamd.varianceReduction = App_hamd.varianceReduction
             /\ retention.nClusters = App_retention.nClusters
             /\ retention.controlRate = App_retention.controlRate

\* a call of the newer retention calculator with clusterSizeCV 0.6 and a
\* finite mde above that of App.js
C30_Witness ==
  /\ call.fn = "calcRetentionMDE"
  /\ call.totalN = 1000
  /\ settings.clusterSizeCV = Pct(60)
  /\ VIsFinite(CallResult.mde)
  /\ VLt(App_calcRetentionMDE(App_FreshClosure(settings), Int2R(1000)).mde, CallResult.mde)

=============================================================================
